---- MODULE Spec2Model ----
(***************************************************************************)
(* Exchange lifecycle orchestration of the three controller clients        *)
(* (Acme = verifier, Alice = holder, Faber = issuer).                      *)
(*                                                                         *)
(* Every React state setter, ref mutation and promise callback of the      *)
(* source is one non-preemptible step; steps interleave only at the        *)
(* boundary of a remote call (await api.request) or of a timer.            *)
(* A page component is a fresh instance at each mount (react-router        *)
(* <Routes> unmounts the page of the route that is left): its useState     *)
(* and useRef cells start again from their initial values, while the       *)
(* promise callbacks of the instance that was unmounted keep running and   *)
(* their state setters have no effect any more.                            *)
(***************************************************************************)
EXTENDS Integers, FiniteSets, Sequences, TLC

\* ------------------------------------------------------------------ bounds
NumIds == 2          \* presentation-exchange identities px-1 .. px-NumIds
MaxMounts == 2       \* number of times the Proofs page is mounted
MaxLoads == 3        \* number of GET /api/proofs requests issued in a run
MaxManual == 1       \* outstanding manual verify calls per (instance, id)

Ids == 1..NumIds
Insts == 1..MaxMounts

Min(S) == CHOOSE x \in S : \A y \in S : x <= y

\* -------------------------------------------------------------------------
\* Acme ProofsPage (load, auto-verify effect, verifyPresentation)
\* -------------------------------------------------------------------------

Absent == "absent"   \* the identity has no record in the list
\* state tags the agent can put in a record (an open set in reality)
StateTags == {"presentation_received", "presentation-received", "done"}
\* a snapshot / the held list: the tag of each identity's record, or Absent
Snapshots == [Ids -> StateTags \cup {Absent}]
EmptyList == [i \in Ids |-> Absent]

VARIABLES
  route,            \* "/proofs" or "/dashboard" (any other page)
  mountNo,          \* instance number of the mounted (or last) ProofsPage
  proofs,           \* useState([]) of the mounted instance
  proofsSeq,        \* issue number of the load whose response proofs holds
  verifying,        \* useState({}) of the mounted instance: ids set to true
  autoVerifiedRef,  \* useRef(new Set()) of each instance
  loads,            \* outstanding GET /api/proofs of the mounted instance
  nextSeq,          \* issue number the next load gets
  newestApplied,    \* highest issue number among the responses applied
  scans,            \* running autoVerifyPresentations loops, each awaiting
                    \* its verify call: [inst, awaiting, rest], rest being
                    \* the records of its list after `awaiting` that are in
                    \* the presentation-received state
  manualCalls,      \* outstanding manual verify calls per <<inst, id>>
  reloadTimers,     \* pending setTimeout(load, 1000) of the mounted instance
  autoSucceeded,    \* per instance: ids whose auto-fired verify succeeded
  autoFailed,       \* per instance: ids whose auto-fired verify failed
  everSucceeded,    \* ids whose auto-fired verify succeeded, in any instance
  manualSucceeded,  \* ids whose manual verify succeeded, in any instance
  plog              \* what the last step did (calls issued, toast shown)

pvars == <<route, mountNo, proofs, proofsSeq, verifying, autoVerifiedRef,
           loads, nextSeq, newestApplied, scans, manualCalls, reloadTimers,
           autoSucceeded, autoFailed, everSucceeded, manualSucceeded, plog>>

\* The action buttons a record page renders (any of the four record pages
\* of Acme and Alice)
VARIABLES
  page,             \* the record page on screen, "none" before one is opened
  records,          \* the state field of each record of the list it holds
  buttons,          \* the transitions the row of each record offers
  autoFired,        \* the transitions the effects of the page invoke for
                    \* each record of a list that has just been stored, the
                    \* page having invoked none before
  invoked           \* the last call of a transition: who issued it, for
                    \* which row

tvars == <<page, records, buttons, autoFired, invoked>>

\* Faber: CredentialsIssuedCard, CredentialDefinitionsCard and the
\* pendingCredentials list of App
VARIABLES
  location,           \* location.pathname
  exchanges,          \* useState([]) of the mounted CredentialsIssuedCard
  loading,            \* useState(false)
  loadError,          \* useState(null): TRUE when it holds a message
  fetchedOnce,        \* useState(false)
  effectPending,      \* the card has rendered and its
                      \* [location.pathname, load] effect has yet to run
  fetches,            \* outstanding GET /api/credential-exchanges of the
                      \* mounted card, counted per fetchedOnce value their
                      \* load closure captured
  revokes,            \* outstanding POST /api/credentials/revoke, each with
                      \* the loading and fetchedOnce its load closure captured
  pendingCredentials, \* useState([]) of App, per task id
  request,            \* the promise of each task's POST /api/credentials/send
  timer,              \* the setTimeout(() => controller.abort()) of each task
  now,                \* Date.now(), in ms since the page was opened
  sending,            \* useState(false) of the mounted CredentialDefinitionsCard
  ownerMounted,       \* per task: the card instance that started it is mounted
  nextTask,           \* number of the next pendingId
  dismissed,          \* the tasks the user removed from the list
  flog                \* what the last step did

fvars == <<location, exchanges, loading, loadError, fetchedOnce, effectPending,
           fetches, revokes, pendingCredentials, request, timer, now, sending,
           ownerMounted, nextTask, dismissed, flog>>

\* Alice: the page on screen, its list and the calls of its handlers
VARIABLES
  aliceLocation,      \* location.pathname of the Alice app
  rendered,           \* what caused the latest render of the mounted page
                      \* whose effects have yet to run ("none": they have run)
  pending,            \* useState(false) of useApi of the mounted page
  lastError,          \* useState(null) of useApi: TRUE when it holds an error
  connections,        \* useState([]) of useConnections
  connectionsLoading, \* useState(false) of useConnections
  connectionFetches,  \* outstanding GET /api/connections of the mounted page
  removing,           \* useState({}) of ConnectionsPage: ids set to true
  removeCalls,        \* per connection: where its removeConnection stands
  aliceProofs,        \* useState([]) of Alice's ProofsPage: the ids whose
                      \* record is in the request_received state
  proofsLoading,      \* useState(false) of Alice's ProofsPage
  proofFetches,       \* outstanding GET /api/proofs of the mounted page
  silentFetches,      \* those of them a handler started with
                      \* load().catch(() => {}) after its action succeeded
  sendingPresentation, \* useState({}) of Alice's ProofsPage: ids set to true
  presentationCalls,  \* outstanding POST /api/proofs/{id}/presentation
  acceptModalOpen,    \* useState(false) of ConnectionsPage
  invitationInput,    \* useState('') of ConnectionsPage: the pasted text
  accepting,          \* useState(false) of ConnectionsPage
  acceptCalls,        \* outstanding POST /api/connections/accept: whether
                      \* the page instance that sent each is still mounted
  alog                \* what the last step did

connVars == <<connections, connectionsLoading, connectionFetches, removing,
              removeCalls>>
presVars == <<aliceProofs, proofsLoading, proofFetches, silentFetches,
              sendingPresentation, presentationCalls>>
acceptVars == <<acceptModalOpen, invitationInput, accepting, acceptCalls>>
avars == <<aliceLocation, rendered, pending, lastError, connVars, presVars,
           acceptVars, alog>>

\* Acme: the agent-status hook of App
VARIABLES
  statusRendered,     \* what caused the latest render of App whose effects
                      \* have yet to run ("none": they have run)
  statusPending,      \* useState(false) of the useApi of useAgentStatus
  statusLastError,    \* useState(null) of that useApi: TRUE when it holds an error
  agentStatus,        \* useState('loading') of useAgentStatus
  statusChecks,       \* outstanding GET /api/status requests: what issued
                      \* each of them ("free": no request in that slot)
  statusInterval,     \* TRUE while an interval set by the effect is live
  slog                \* what the last step did

svars == <<statusRendered, statusPending, statusLastError, agentStatus,
           statusChecks, statusInterval, slog>>

\* Faber: ConnectionsCard, its initial invitation and the agent it talks to
VARIABLES
  cardMounts,         \* ConnectionsCard instances mounted so far
  cardMounted,        \* the instance on screen (0: another route is shown)
  lsCreated,          \* localStorage 'faber_initial_invitation_created' = 'true'
  lsInvitation,       \* localStorage 'faber_initial_invitation' holds a value
  agentList,          \* the connection records the agent holds
  hasCreatedInitialInvitation, \* the useRef of each instance
  checks,             \* per instance: where its checkAndCreate stands
  initialInvitation,  \* useState(null) of the instance on screen: TRUE when set
  cardConnections,    \* useState([]) of the instance on screen
  autoCreates,        \* automatic POST /api/connections/invitation issued so far
  ilog                \* what the last step did

ivars == <<cardMounts, cardMounted, lsCreated, lsInvitation, agentList,
           hasCreatedInitialInvitation, checks, initialInvitation,
           cardConnections, autoCreates, ilog>>

\* the app shells and the connection pages
cvars == <<svars, ivars>>

vars == <<pvars, tvars, fvars, avars, cvars>>

\* op: the handler that ran ("none": one that issues no verify call and
\* pushes no toast); inst, id: the instance and identity it ran for;
\* skipped: the records in the presentation-received state the loop passed
\* over in this step because it found them in autoVerifiedRef;
\* fired: the identity a verify call was issued for (0: none);
\* succeeded, failed: the identities whose auto-fired call has resolved,
\* rejected in that instance up to and including this step;
\* inflight: the identities its loops await a call for after the step
NoLog == [op |-> "none", inst |-> 0, id |-> 0, skipped |-> {}, fired |-> 0,
          succeeded |-> {}, failed |-> {}, inflight |-> {}]

\* the handlers that end in pushToast({... intent: 'error'})
ErrorToastOps == {"loadFail", "manualFail", "autoFail"}

Mounted == route = "/proofs"

\* isPresentationReceived
IsPresentationReceived(state) ==
  state = "presentation_received" \/ state = "presentation-received"

\* the records of a list for which isPresentationReceived is true
Received(snap) == {i \in Ids : IsPresentationReceived(snap[i])}

\* The synchronous part of the for-loop of autoVerifyPresentations over the
\* not yet visited records of its list, of which `rest` are in the
\* presentation-received state, with the handled set `ref`: the first record
\* that passes `isPresentationReceived && exchangeId && !alreadyVerified`
\* (0: the loop runs to its end without firing).
ScanNext(rest, ref) ==
  LET c == rest \ ref
  IN IF c = {} THEN 0 ELSE Min(c)

\* the presentation-received records that run of the loop looks at
ScanEvaluated(rest, ref) ==
  LET n == ScanNext(rest, ref)
  IN {i \in rest : n = 0 \/ i <= n}

PInit ==
  /\ route = "/dashboard"
  /\ mountNo = 0
  /\ proofs = EmptyList
  /\ proofsSeq = 0
  /\ verifying = {}
  /\ autoVerifiedRef = [n \in Insts |-> {}]
  /\ loads = {}
  /\ nextSeq = 1
  /\ newestApplied = 0
  /\ scans = {}
  /\ manualCalls = [k \in Insts \X Ids |-> 0]
  /\ reloadTimers = 0
  /\ autoSucceeded = [n \in Insts |-> {}]
  /\ autoFailed = [n \in Insts |-> {}]
  /\ everSucceeded = {}
  /\ manualSucceeded = {}
  /\ plog = NoLog

\* ---------------------------------------------------------------- helpers
IsCurrent(n) == Mounted /\ n = mountNo

\* api.request('/api/proofs') inside load(): one more outstanding fetch
CanLoad == nextSeq <= MaxLoads
IssueLoad(ls) == ls \cup {nextSeq}

\* outstanding verify calls for an identity, over all instances
AutoCalls(id) == {s \in scans : s.awaiting = id}
ManualCount(id) ==
  LET RECURSIVE Sum(_)
      Sum(S) == IF S = {} THEN 0
                ELSE LET n == CHOOSE x \in S : TRUE
                     IN manualCalls[<<n, id>>] + Sum(S \ {n})
  IN Sum(Insts)
Outstanding(id) == Cardinality(AutoCalls(id)) + ManualCount(id)

\* An unmounted instance none of whose loops is running any more is
\* unreachable: nothing reads its ref again, and the model forgets it
\* (`after`: the running loops once the step is done).
Unreachable(n, after) == ~IsCurrent(n) /\ ~\E s \in after : s.inst = n
Forget(f, n, after) == IF Unreachable(n, after) THEN [f EXCEPT ![n] = {}] ELSE f

\* The loop of autoVerifyPresentations of instance n, started or resumed with
\* the presentation-received records `rest` still to visit; `old` is the set
\* holding the scan that resumes ({} when the effect starts a new loop), `ver`
\* the verifying map and `ref` the handled set as the preceding statements of
\* the same step left them.
\* Runs to the next `await api.request(.../verify)` or to the end of the list:
\*   setVerifying(prev => ({...prev, [exchangeId]: true}))
\*   autoVerifiedRef.current.add(exchangeId)
RunScan(n, rest, old, ver, ref) ==
  LET nxt == ScanNext(rest, ref)
      after == (scans \ old) \cup
                  (IF nxt = 0 THEN {}
                   ELSE {[inst |-> n, awaiting |-> nxt,
                          rest |-> {i \in rest : i > nxt}]})
  IN /\ scans' = after
     /\ autoVerifiedRef' =
          Forget([autoVerifiedRef EXCEPT ![n] = IF nxt = 0 THEN ref ELSE ref \cup {nxt}],
                 n, after)
     /\ verifying' = IF nxt # 0 /\ IsCurrent(n) THEN ver \cup {nxt} ELSE ver

\* what that run of the loop did, for plog
ScanLog(op, n, id, rest, ref, succ, fail) ==
  [op |-> op, inst |-> n, id |-> id,
   skipped |-> ScanEvaluated(rest, ref) \cap ref,
   fired |-> ScanNext(rest, ref),
   succeeded |-> succ, failed |-> fail,
   inflight |-> {s.awaiting : s \in {t \in scans' : t.inst = n}}]

\* ---------------------------------------------------------------- actions
\* <Route path="/proofs" element={<ProofsPage/>}>: a new instance mounts;
\* useEffect(() => { load() }, [load]) issues the first fetch, and the
\* auto-verify effect finds proofs.length = 0.
NavigateToProofs ==
  /\ ~Mounted
  /\ mountNo < MaxMounts
  /\ CanLoad
  /\ route' = "/proofs"
  /\ mountNo' = mountNo + 1
  /\ proofs' = EmptyList
  /\ proofsSeq' = 0
  /\ newestApplied' = 0
  /\ verifying' = {}
  /\ loads' = IssueLoad({})
  /\ nextSeq' = nextSeq + 1
  /\ reloadTimers' = 0
  /\ plog' = NoLog
  /\ UNCHANGED <<autoVerifiedRef, scans, manualCalls, autoSucceeded, autoFailed,
                 everSucceeded>>
  /\ UNCHANGED manualSucceeded
  /\ UNCHANGED <<tvars, fvars, avars, cvars>>

\* The route changes: the instance unmounts.  Its state cells are gone and
\* the setters its pending callbacks still call do nothing; its verify calls
\* stay outstanding and its loop keeps running over its own ref.
NavigateAway ==
  /\ Mounted
  /\ route' = "/dashboard"
  /\ proofs' = EmptyList
  /\ proofsSeq' = 0
  /\ newestApplied' = 0
  /\ verifying' = {}
  /\ loads' = {}
  /\ reloadTimers' = 0
  /\ plog' = NoLog
  /\ LET gone == ~\E s \in scans : s.inst = mountNo
     IN /\ autoVerifiedRef' = IF gone THEN [autoVerifiedRef EXCEPT ![mountNo] = {}]
                                      ELSE autoVerifiedRef
        /\ autoSucceeded' = IF gone THEN [autoSucceeded EXCEPT ![mountNo] = {}]
                                    ELSE autoSucceeded
        /\ autoFailed' = IF gone THEN [autoFailed EXCEPT ![mountNo] = {}]
                                 ELSE autoFailed
  /\ UNCHANGED <<mountNo, nextSeq, scans, manualCalls, everSucceeded>>
  /\ UNCHANGED manualSucceeded
  /\ UNCHANGED <<tvars, fvars, avars, cvars>>

\* load(): the Refresh button, or the [load] effect running again
Load ==
  /\ Mounted
  /\ CanLoad
  /\ loads' = IssueLoad(loads)
  /\ nextSeq' = nextSeq + 1
  /\ plog' = NoLog
  /\ UNCHANGED <<route, mountNo, proofs, proofsSeq, verifying, autoVerifiedRef,
                 newestApplied, scans, manualCalls, reloadTimers,
                 autoSucceeded, autoFailed, everSucceeded>>
  /\ UNCHANGED manualSucceeded
  /\ UNCHANGED <<tvars, fvars, avars, cvars>>

\* variant: the effect sees the first record of the new list and the old
\* records after it
ScannedList_Partial(old, new) ==
  [i \in Ids |-> IF i = 1 THEN new[i] ELSE old[i]]

\* the list autoVerifyPresentations iterates: the `proofs` of the render
\* that follows setProofs(new), which the [proofs] effect closes over
ScannedList(old, new) == new

\* the response of fetch number seq arrives with the list snap:
\*   setProofs(res?.results ?? [])
\* and the [proofs] effect starts autoVerifyPresentations over the new list
\* when proofs.length > 0
LoadOk(seq, snap) ==
  /\ Mounted
  /\ seq \in loads
  /\ loads' = loads \ {seq}
  /\ proofs' = snap
  /\ proofsSeq' = seq
  /\ newestApplied' = IF seq > newestApplied THEN seq ELSE newestApplied
  /\ IF ScannedList(proofs, snap) # EmptyList
        THEN /\ RunScan(mountNo, Received(ScannedList(proofs, snap)), {},
                        verifying, autoVerifiedRef[mountNo])
             /\ plog' = ScanLog("loadOk", mountNo, 0,
                                Received(ScannedList(proofs, snap)),
                                autoVerifiedRef[mountNo],
                                autoSucceeded[mountNo], autoFailed[mountNo])
        ELSE /\ UNCHANGED <<scans, autoVerifiedRef, verifying>>
             /\ plog' = [NoLog EXCEPT !.op = "loadOk", !.inst = mountNo]
  /\ UNCHANGED <<route, mountNo, nextSeq, manualCalls, reloadTimers,
                 autoSucceeded, autoFailed, everSucceeded>>
  /\ UNCHANGED manualSucceeded
  /\ UNCHANGED <<tvars, fvars, avars, cvars>>

\* the fetch fails: pushToast('Failed to load proofs'); proofs is not touched
LoadFail(seq) ==
  /\ Mounted
  /\ seq \in loads
  /\ loads' = loads \ {seq}
  /\ plog' = [NoLog EXCEPT !.op = "loadFail", !.inst = mountNo]
  /\ UNCHANGED <<route, mountNo, proofs, proofsSeq, verifying, autoVerifiedRef,
                 nextSeq, newestApplied, scans, manualCalls, reloadTimers,
                 autoSucceeded, autoFailed, everSucceeded>>
  /\ UNCHANGED manualSucceeded
  /\ UNCHANGED <<tvars, fvars, avars, cvars>>

\* verifyPresentation(presentationExchangeId): the Verify button of a row in
\* the presentation-received state
\*   if (verifying[presentationExchangeId]) return
\*   setVerifying(prev => ({...prev, [id]: true})); await api.request(.../verify)
VerifyPresentation(id) ==
  /\ Mounted
  /\ IsPresentationReceived(proofs[id])
  /\ id \notin verifying
  /\ manualCalls[<<mountNo, id>>] < MaxManual
  /\ verifying' = verifying \cup {id}
  /\ manualCalls' = [manualCalls EXCEPT ![<<mountNo, id>>] = @ + 1]
  /\ plog' = [NoLog EXCEPT !.op = "verifyPresentation", !.inst = mountNo,
                           !.id = id, !.fired = id]
  /\ UNCHANGED <<route, mountNo, proofs, proofsSeq, autoVerifiedRef, loads,
                 nextSeq, newestApplied, scans, reloadTimers,
                 autoSucceeded, autoFailed, everSucceeded>>
  /\ UNCHANGED manualSucceeded
  /\ UNCHANGED <<tvars, fvars, avars, cvars>>

\* verifyPresentation called while verifying[id] is set: the early return
VerifyDropped(id) ==
  /\ Mounted
  /\ IsPresentationReceived(proofs[id])
  /\ id \in verifying
  /\ plog' = [NoLog EXCEPT !.op = "verifyDropped", !.inst = mountNo, !.id = id]
  /\ UNCHANGED <<route, mountNo, proofs, proofsSeq, verifying, autoVerifiedRef,
                 loads, nextSeq, newestApplied, scans, manualCalls,
                 reloadTimers, autoSucceeded, autoFailed, everSucceeded>>
  /\ UNCHANGED manualSucceeded
  /\ UNCHANGED <<tvars, fvars, avars, cvars>>

\* a manual verify call of instance n resolves: success toast,
\* load().catch(() => {}), and the finally block deletes verifying[id]
ManualOk(n, id) ==
  /\ manualCalls[<<n, id>>] > 0
  /\ manualCalls' = [manualCalls EXCEPT ![<<n, id>>] = @ - 1]
  /\ IF IsCurrent(n)
       THEN /\ CanLoad
            /\ loads' = IssueLoad(loads)
            /\ nextSeq' = nextSeq + 1
            /\ verifying' = verifying \ {id}
       ELSE UNCHANGED <<loads, nextSeq, verifying>>
  /\ manualSucceeded' = manualSucceeded \cup {id}
  /\ plog' = [NoLog EXCEPT !.op = "manualOk", !.inst = n, !.id = id]
  /\ UNCHANGED <<route, mountNo, proofs, proofsSeq, autoVerifiedRef,
                 newestApplied, scans, reloadTimers, autoSucceeded, autoFailed,
                 everSucceeded>>
  /\ UNCHANGED <<tvars, fvars, avars, cvars>>

\* a manual verify call rejects: pushToast('Verification failed'), finally
ManualFail(n, id) ==
  /\ manualCalls[<<n, id>>] > 0
  /\ manualCalls' = [manualCalls EXCEPT ![<<n, id>>] = @ - 1]
  /\ verifying' = IF IsCurrent(n) THEN verifying \ {id} ELSE verifying
  /\ plog' = [NoLog EXCEPT !.op = "manualFail", !.inst = n, !.id = id]
  /\ UNCHANGED <<route, mountNo, proofs, proofsSeq, autoVerifiedRef, loads,
                 nextSeq, newestApplied, scans, reloadTimers,
                 autoSucceeded, autoFailed, everSucceeded>>
  /\ UNCHANGED manualSucceeded
  /\ UNCHANGED <<tvars, fvars, avars, cvars>>

\* variant: the failed identity stays in the handled set
RefAfterFailure_Kept(ref, id) == ref

\* the handled set after the awaited verify call of an auto-fire failed:
\*   autoVerifiedRef.current.delete(exchangeId)
RefAfterFailure(ref, id) == ref \ {id}

\* variant: the failure ends the loop
RestAfterFailure_Halt(rest) == {}

\* the records the loop still visits after the awaited call failed: try,
\* catch and finally are inside the body of the for-loop, which goes on
RestAfterFailure(rest) == rest

\* the awaited call of loop s resolves: success toast,
\* setTimeout(() => load().catch(() => {}), 1000), finally deletes
\* verifying[id], and the loop goes on with the records after id
AutoOk(s) ==
  LET n == s.inst
      id == s.awaiting
  IN /\ s \in scans
     /\ RunScan(n, s.rest, {s},
                IF IsCurrent(n) THEN verifying \ {id} ELSE verifying,
                autoVerifiedRef[n])
     /\ autoSucceeded' = Forget([autoSucceeded EXCEPT ![n] = @ \cup {id}], n, scans')
     /\ autoFailed' = Forget(autoFailed, n, scans')
     /\ everSucceeded' = everSucceeded \cup {id}
     /\ reloadTimers' = IF IsCurrent(n) THEN reloadTimers + 1 ELSE reloadTimers
     /\ plog' = ScanLog("autoOk", n, id, s.rest, autoVerifiedRef[n],
                        autoSucceeded[n] \cup {id}, autoFailed[n])
     /\ UNCHANGED <<route, mountNo, proofs, proofsSeq, loads, nextSeq,
                    newestApplied, manualCalls>>
     /\ UNCHANGED manualSucceeded
     /\ UNCHANGED <<tvars, fvars, avars, cvars>>

\* the awaited call of loop s rejects: error toast, the identity leaves the
\* handled set, finally deletes verifying[id], and the loop goes on
AutoFail(s) ==
  LET n == s.inst
      id == s.awaiting
      ref == RefAfterFailure(autoVerifiedRef[n], id)
  IN /\ s \in scans
     /\ RunScan(n, RestAfterFailure(s.rest), {s},
                IF IsCurrent(n) THEN verifying \ {id} ELSE verifying, ref)
     /\ autoFailed' = Forget([autoFailed EXCEPT ![n] = @ \cup {id}], n, scans')
     /\ autoSucceeded' = Forget(autoSucceeded, n, scans')
     /\ plog' = ScanLog("autoFail", n, id, RestAfterFailure(s.rest), ref,
                        autoSucceeded[n], autoFailed[n] \cup {id})
     /\ UNCHANGED <<route, mountNo, proofs, proofsSeq, loads, nextSeq,
                    newestApplied, manualCalls, reloadTimers, everSucceeded>>
     /\ UNCHANGED manualSucceeded
     /\ UNCHANGED <<tvars, fvars, avars, cvars>>

\* the 1000 ms timer set after a successful auto-verification fires: load()
TimerLoad ==
  /\ Mounted
  /\ reloadTimers > 0
  /\ CanLoad
  /\ reloadTimers' = reloadTimers - 1
  /\ loads' = IssueLoad(loads)
  /\ nextSeq' = nextSeq + 1
  /\ plog' = NoLog
  /\ UNCHANGED <<route, mountNo, proofs, proofsSeq, verifying, autoVerifiedRef,
                 newestApplied, scans, manualCalls, autoSucceeded, autoFailed,
                 everSucceeded>>
  /\ UNCHANGED manualSucceeded
  /\ UNCHANGED <<tvars, fvars, avars, cvars>>

PNext ==
  \/ NavigateToProofs
  \/ NavigateAway
  \/ Load
  \/ \E seq \in 1..MaxLoads, snap \in Snapshots : LoadOk(seq, snap)
  \/ \E seq \in 1..MaxLoads : LoadFail(seq)
  \/ \E id \in Ids : VerifyPresentation(id)
  \/ \E id \in Ids : VerifyDropped(id)
  \/ \E n \in Insts, id \in Ids : ManualOk(n, id)
  \/ \E n \in Insts, id \in Ids : ManualFail(n, id)
  \/ \E s \in scans : AutoOk(s)
  \/ \E s \in scans : AutoFail(s)
  \/ TimerLoad

\* -------------------------------------------------------------------------
\* Record pages: the transitions the row of a record offers
\* -------------------------------------------------------------------------

MaxRows == 2         \* records in a list

Missing == "missing" \* the record has no state field
RawStates == {"offer_received", "offer-received",
              "credential_received", "credential-received",
              "request_received", "request-received",
              "presentation_received", "presentation-received",
              "done", "no-such-state", Missing}

RecordPages == {"acme/credentials", "acme/proofs",
                "alice/credentials", "alice/proofs"}

RecordLists == UNION {[1..n -> RawStates] : n \in 1..MaxRows}

\* variant: a record without a state field is taken for an offer
StateOf_OfferByDefault(raw) == IF raw = Missing THEN "offer_received" ELSE raw

\* const state = c.state || 'unknown'
\* (the CredentialsPage of Alice also looks in c.cred_ex_record?.state and
\* c.credential_offer_state before it falls back: Missing stands for a
\* record that has a state in none of these places)
StateOf(raw) == IF raw = Missing THEN "unknown" ELSE raw

\* Acme CredentialsPage row: the buttons of a credential exchange
AcmeCredentialButtons(state) ==
  (IF state = "offer_received" THEN {"acceptCredentialOffer"} ELSE {})
  \cup (IF state = "credential_received" THEN {"storeCredential"} ELSE {})

\* Acme ProofsPage row: the button of a presentation exchange
AcmeProofButtons(state) ==
  IF state = "presentation_received" \/ state = "presentation-received"
  THEN {"verifyPresentation"} ELSE {}

\* Alice CredentialsPage row: the buttons of a credential exchange
AliceCredentialButtons(state) ==
  (IF state = "offer-received" \/ state = "offer_received"
   THEN {"acceptCredentialOffer"} ELSE {})
  \cup (IF state = "credential-received" \/ state = "credential_received"
        THEN {"storeCredential"} ELSE {})

\* Alice ProofsPage row: the button of a presentation exchange
AliceProofButtons(state) ==
  IF state = "request_received" THEN {"sendPresentation"} ELSE {}

RowButtons(pg, raw) ==
  CASE pg = "acme/credentials" -> AcmeCredentialButtons(StateOf(raw))
    [] pg = "acme/proofs" -> AcmeProofButtons(StateOf(raw))
    [] pg = "alice/credentials" -> AliceCredentialButtons(StateOf(raw))
    [] pg = "alice/proofs" -> AliceProofButtons(StateOf(raw))

\* list.map(row => <tr>...</tr>)
RenderRows(pg, list) == [i \in DOMAIN list |-> RowButtons(pg, list[i])]

\* variant: the credentials page of Alice requests the credential of every
\* offer a snapshot shows
RowAutoFire_Offers(pg, raw) ==
  IF pg = "alice/credentials" /\ StateOf(raw) \in {"offer_received", "offer-received"}
  THEN {"acceptCredentialOffer"} ELSE {}

\* The transitions the effects of a page invoke for a record of the list
\* they run over.  Acme's ProofsPage has the [proofs] effect, whose loop
\* tests isPresentationReceived on `proof.state || 'unknown'`; the effects of
\* the other three pages only load the list.
RowAutoFire(pg, raw) ==
  IF pg = "acme/proofs" /\ IsPresentationReceived(StateOf(raw))
  THEN {"verifyPresentation"} ELSE {}

AutoFireRows(pg, list) == [i \in DOMAIN list |-> RowAutoFire(pg, list[i])]

NoInvoke == [by |-> "none", transition |-> "none", row |-> 0]

\* the first call the loop over the list issues (the later ones follow one
\* by one as the calls return)
FirstAutoInvoke(pg, list) ==
  LET rows == {i \in DOMAIN list : RowAutoFire(pg, list[i]) # {}}
  IN IF rows = {} THEN NoInvoke
     ELSE [by |-> "snapshot",
           transition |-> CHOOSE t \in RowAutoFire(pg, list[Min(rows)]) : TRUE,
           row |-> Min(rows)]

TInit ==
  /\ page = "none"
  /\ records = <<>>
  /\ buttons = <<>>
  /\ autoFired = <<>>
  /\ invoked = NoInvoke

\* the route of a record page is entered: the page mounts with useState([])
OpenPage(pg) ==
  /\ pg # page
  /\ page' = pg
  /\ records' = <<>>
  /\ buttons' = <<>>
  /\ autoFired' = <<>>
  /\ invoked' = NoInvoke
  /\ UNCHANGED <<pvars, fvars, avars, cvars>>

\* the list request of the page resolves with list: the setter stores it,
\* the page renders one row per record and its effects run
ListLoaded(list) ==
  /\ page \in RecordPages
  /\ records' = list
  /\ buttons' = RenderRows(page, list)
  /\ autoFired' = AutoFireRows(page, list)
  /\ invoked' = FirstAutoInvoke(page, list)
  /\ UNCHANGED page
  /\ UNCHANGED <<pvars, fvars, avars, cvars>>

\* the user clicks a button a row offers: the handler of the transition
\* issues its call
ClickButton(i, b) ==
  /\ page \in RecordPages
  /\ i \in DOMAIN buttons
  /\ b \in buttons[i]
  /\ invoked' = [by |-> "user", transition |-> b, row |-> i]
  /\ UNCHANGED <<page, records, buttons, autoFired>>
  /\ UNCHANGED <<pvars, fvars, avars, cvars>>

Transitions == {"acceptCredentialOffer", "storeCredential",
                "sendPresentation", "verifyPresentation"}

TNext ==
  \/ \E pg \in RecordPages : OpenPage(pg)
  \/ \E list \in RecordLists : ListLoaded(list)
  \/ \E i \in 1..MaxRows, b \in Transitions : ClickButton(i, b)

\* -------------------------------------------------------------------------
\* Faber: CredentialsIssuedCard.load, CredentialDefinitionsCard.sendCredential
\* and App.pendingCredentials
\* -------------------------------------------------------------------------

NumExchanges == 1    \* credential exchanges the agent may report
MaxFetches == 2      \* GET /api/credential-exchanges outstanding at a time
MaxRevokes == 1      \* POST /api/credentials/revoke outstanding at a time
MaxTasks == 2        \* credential sends started in a run
TicksPerTimeout == 1 \* clock steps in one SEND_TIMEOUT_MS
MaxTicks == 2        \* clock steps in a run

SEND_TIMEOUT_MS == 610 * 1000
TickMs == SEND_TIMEOUT_MS \div TicksPerTimeout
MaxNow == MaxTicks * TickMs

ExIds == 1..NumExchanges
ExchangeLists == SUBSET ExIds
TaskIds == 1..MaxTasks

FaberRoutes == {"/dashboard", "/credential-definitions", "/credentials-issued"}

\* the Credential form of the issue modal
Forms == {"complete", "noConnection", "noCredDef", "noSchema", "noAttributes"}

\* error.name of a rejected request that was not aborted
ErrorNames == {"Error", "TypeError"}

NoItem == [status |-> "none", isTimeout |-> FALSE, startTime |-> 0]
NoTimer == [st |-> "none", due |-> 0]
NoFetches == [fo \in BOOLEAN |-> 0]
NoFLog == [op |-> "none", id |-> 0, before |-> {}]

Terminal == {"completed", "failed"}

IssuedMounted == location = "/credentials-issued"
DefsMounted == location = "/credential-definitions"

FInit ==
  /\ location = "/dashboard"
  /\ exchanges = {}
  /\ loading = FALSE
  /\ loadError = FALSE
  /\ fetchedOnce = FALSE
  /\ effectPending = FALSE
  /\ fetches = NoFetches
  /\ revokes = {}
  /\ pendingCredentials = [id \in TaskIds |-> NoItem]
  /\ request = [id \in TaskIds |-> "none"]
  /\ timer = [id \in TaskIds |-> NoTimer]
  /\ now = 0
  /\ sending = FALSE
  /\ ownerMounted = [id \in TaskIds |-> FALSE]
  /\ nextTask = 1
  /\ dismissed = {}
  /\ flog = NoFLog

CanFetch == fetches[TRUE] + fetches[FALSE] < MaxFetches

\* load() as created by the render in which loading = ld and fetchedOnce = fo:
\*   if (loading) return; setLoading(true); setLoadError(null); await request
LoadCall(ld, fo) ==
  IF ld
    THEN UNCHANGED <<loading, loadError, fetches>>
    ELSE /\ loading' = TRUE
         /\ loadError' = FALSE
         /\ fetches' = [fetches EXCEPT ![fo] = @ + 1]

\* variant: the catch block empties the list whatever fetchedOnce is
ExchangesAfterFailure_Cleared(fo, list) == {}

\* the list after the catch block of load() created with fetchedOnce = fo:
\*   if (!fetchedOnce) setExchanges([])
ExchangesAfterFailure(fo, list) == IF ~fo THEN {} ELSE list

\* variant: the list goes away with the card that is unmounted
PendingAfterUnmount_Dropped(list) == [id \in TaskIds |-> NoItem]

\* the pendingCredentials of App when a routed card unmounts: App stays
\* mounted, its state is untouched
PendingAfterUnmount(list) == list

\* a nav link is followed: <Routes> unmounts the card of the old route and
\* mounts the one of the new route with its initial state
FaberNavigate(r) ==
  /\ r # location
  /\ location' = r
  /\ exchanges' = {}
  /\ loading' = FALSE
  /\ loadError' = FALSE
  /\ fetchedOnce' = FALSE
  /\ fetches' = NoFetches
  /\ revokes' = {}
  /\ effectPending' = (r = "/credentials-issued")
  /\ sending' = FALSE
  /\ ownerMounted' = [id \in TaskIds |-> FALSE]
  /\ pendingCredentials' = PendingAfterUnmount(pendingCredentials)
  /\ flog' = [NoFLog EXCEPT !.op = "navigate"]
  /\ UNCHANGED <<request, timer, now, nextTask, dismissed>>
  /\ UNCHANGED <<pvars, tvars, avars, cvars>>

\* the [location.pathname, load] effect of CredentialsIssuedCard runs after a
\* render (load is a new function at every render, useApi() returning a new
\* object each time): load()
RouteEffect ==
  /\ IssuedMounted
  /\ effectPending
  /\ loading \/ CanFetch
  /\ LoadCall(loading, fetchedOnce)
  /\ effectPending' = ~loading
  /\ flog' = [NoFLog EXCEPT !.op = "effect"]
  /\ UNCHANGED <<location, exchanges, fetchedOnce, revokes, pendingCredentials,
                 request, timer, now, sending, ownerMounted, nextTask, dismissed>>
  /\ UNCHANGED <<pvars, tvars, avars, cvars>>

\* the Refresh button (disabled={loading}): onClick={load}
Refresh ==
  /\ IssuedMounted
  /\ ~loading
  /\ CanFetch
  /\ LoadCall(loading, fetchedOnce)
  /\ effectPending' = TRUE
  /\ flog' = [NoFLog EXCEPT !.op = "refresh"]
  /\ UNCHANGED <<location, exchanges, fetchedOnce, revokes, pendingCredentials,
                 request, timer, now, sending, ownerMounted, nextTask, dismissed>>
  /\ UNCHANGED <<pvars, tvars, avars, cvars>>

\* a fetch started by a load() created with fetchedOnce = fo resolves:
\*   setExchanges(list); setFetchedOnce(true); finally setLoading(false)
IssuedLoadOk(fo, list) ==
  /\ IssuedMounted
  /\ fetches[fo] > 0
  /\ fetches' = [fetches EXCEPT ![fo] = @ - 1]
  /\ exchanges' = list
  /\ fetchedOnce' = TRUE
  /\ loading' = FALSE
  /\ effectPending' = TRUE
  /\ flog' = [NoFLog EXCEPT !.op = "loadOk", !.before = exchanges]
  /\ UNCHANGED <<location, loadError, revokes, pendingCredentials, request,
                 timer, now, sending, ownerMounted, nextTask, dismissed>>
  /\ UNCHANGED <<pvars, tvars, avars, cvars>>

\* it rejects: setLoadError(message); if (!fetchedOnce) setExchanges([]);
\* finally setLoading(false)
IssuedLoadFail(fo) ==
  /\ IssuedMounted
  /\ fetches[fo] > 0
  /\ fetches' = [fetches EXCEPT ![fo] = @ - 1]
  /\ loadError' = TRUE
  /\ exchanges' = ExchangesAfterFailure(fo, exchanges)
  /\ loading' = FALSE
  /\ effectPending' = TRUE
  /\ flog' = [NoFLog EXCEPT !.op = "loadFail", !.before = exchanges]
  /\ UNCHANGED <<location, fetchedOnce, revokes, pendingCredentials, request,
                 timer, now, sending, ownerMounted, nextTask, dismissed>>
  /\ UNCHANGED <<pvars, tvars, avars, cvars>>

\* the Revoke dialog of a listed exchange is confirmed: setRevoking, then
\* await the revoke request; the handler holds the load of this render
ConfirmRevoke ==
  /\ IssuedMounted
  /\ exchanges # {}
  /\ Cardinality(revokes) < MaxRevokes
  /\ revokes' = revokes \cup {[ld |-> loading, fo |-> fetchedOnce]}
  /\ effectPending' = TRUE
  /\ flog' = [NoFLog EXCEPT !.op = "confirmRevoke"]
  /\ UNCHANGED <<location, exchanges, loading, loadError, fetchedOnce, fetches,
                 pendingCredentials, request, timer, now, sending, ownerMounted,
                 nextTask, dismissed>>
  /\ UNCHANGED <<pvars, tvars, avars, cvars>>

\* the revoke request resolves: toast, setRevokeModal(null), load() of the
\* render the dialog was confirmed in, finally setRevoking
RevokeOk(rv) ==
  /\ rv \in revokes
  /\ revokes' = revokes \ {rv}
  /\ rv.ld \/ CanFetch
  /\ LoadCall(rv.ld, rv.fo)
  /\ effectPending' = TRUE
  /\ flog' = [NoFLog EXCEPT !.op = "revokeOk"]
  /\ UNCHANGED <<location, exchanges, fetchedOnce, pendingCredentials, request,
                 timer, now, sending, ownerMounted, nextTask, dismissed>>
  /\ UNCHANGED <<pvars, tvars, avars, cvars>>

\* the revoke request rejects: toast 'Failed to revoke', finally setRevoking
RevokeFail(rv) ==
  /\ rv \in revokes
  /\ revokes' = revokes \ {rv}
  /\ effectPending' = TRUE
  /\ flog' = [NoFLog EXCEPT !.op = "revokeFail"]
  /\ UNCHANGED <<location, exchanges, loading, loadError, fetchedOnce, fetches,
                 pendingCredentials, request, timer, now, sending, ownerMounted,
                 nextTask, dismissed>>
  /\ UNCHANGED <<pvars, tvars, avars, cvars>>

\* variant: a timer with no delay
TimerDue_Early(start) == start

\* setTimeout(() => controller.abort(), SEND_TIMEOUT_MS) set at time start
TimerDue(start) == start + SEND_TIMEOUT_MS

\* variant: no rejection is taken for a timeout
IsTimeout_Never(name) == FALSE

\* const isTimeout = error.name === 'AbortError'
IsTimeout(name) == name = "AbortError"

\* the badge of a row of the failed sends:
\*   <Badge tone="danger">{item.isTimeout ? 'Timeout' : 'Failed'}</Badge>
FailedBadge(item) == IF item.isTimeout THEN "Timeout" ELSE "Failed"

\* variant: a request that can be answered again
RequestAfterSettle_Open(r) == r

\* a promise that has been resolved or rejected stays so
RequestAfterSettle(r) == "settled"

\* the Send button of the issue modal: sendCredential()
SendCredential(form) ==
  /\ DefsMounted
  /\ IF sending
       THEN /\ flog' = [NoFLog EXCEPT !.op = "sendDropped"]
            /\ UNCHANGED <<pendingCredentials, request, timer, sending,
                           ownerMounted, nextTask>>
       ELSE IF form # "complete"
       THEN /\ flog' = [NoFLog EXCEPT !.op = "sendInvalid"]
            /\ UNCHANGED <<pendingCredentials, request, timer, sending,
                           ownerMounted, nextTask>>
       ELSE /\ nextTask <= MaxTasks
            /\ sending' = TRUE
            /\ pendingCredentials' =
                 [pendingCredentials EXCEPT ![nextTask] =
                    [status |-> "sending", isTimeout |-> FALSE, startTime |-> now]]
            /\ request' = [request EXCEPT ![nextTask] = "inflight"]
            /\ timer' = [timer EXCEPT ![nextTask] =
                           [st |-> "armed", due |-> TimerDue(now)]]
            /\ ownerMounted' = [ownerMounted EXCEPT ![nextTask] = TRUE]
            /\ nextTask' = nextTask + 1
            /\ flog' = [NoFLog EXCEPT !.op = "send", !.id = nextTask]
  /\ UNCHANGED <<location, exchanges, loading, loadError, fetchedOnce,
                 effectPending, fetches, revokes, now, dismissed>>
  /\ UNCHANGED <<pvars, tvars, avars, cvars>>

\* prev.map(item => item.id === pendingId ? { ...item, status, ... } : item)
MarkItem(list, id, status, isTimeout) ==
  [list EXCEPT ![id] = IF @.status = "none" THEN @
                       ELSE [@ EXCEPT !.status = status, !.isTimeout = isTimeout]]

\* what .then and .catch/.finally have in common: the promise is settled,
\* the item of the task is marked, setSending(false) reaches the card that
\* started the task if it is still mounted, and a mounted
\* CredentialsIssuedCard renders the new list
Settle(id, status, isTimeout) ==
  /\ request' = [request EXCEPT ![id] = RequestAfterSettle(@)]
  /\ pendingCredentials' = MarkItem(pendingCredentials, id, status, isTimeout)
  /\ sending' = IF ownerMounted[id] THEN FALSE ELSE sending
  /\ effectPending' = (IssuedMounted \/ effectPending)

\* the send request resolves: .then, clearTimeout(timeoutId)
SendResolved(id) ==
  /\ request[id] = "inflight"
  /\ Settle(id, "completed", FALSE)
  /\ timer' = [timer EXCEPT ![id].st = "cleared"]
  /\ flog' = [NoFLog EXCEPT !.op = "sendResolved", !.id = id]
  /\ UNCHANGED <<location, exchanges, loading, loadError, fetchedOnce, fetches,
                 revokes, now, ownerMounted, nextTask, dismissed>>
  /\ UNCHANGED <<pvars, tvars, avars, cvars>>

\* the send request rejects with an error named name: .catch,
\* clearTimeout(timeoutId)
SendRejected(id, name) ==
  /\ request[id] = "inflight"
  /\ Settle(id, "failed", IsTimeout(name))
  /\ timer' = [timer EXCEPT ![id].st = "cleared"]
  /\ flog' = [NoFLog EXCEPT !.op = "sendRejected", !.id = id]
  /\ UNCHANGED <<location, exchanges, loading, loadError, fetchedOnce, fetches,
                 revokes, now, ownerMounted, nextTask, dismissed>>
  /\ UNCHANGED <<pvars, tvars, avars, cvars>>

\* the timer of the task fires: controller.abort(); a request still in
\* flight rejects with an AbortError and .catch runs
SendTimeout(id) ==
  /\ timer[id].st = "armed"
  /\ now >= timer[id].due
  /\ timer' = [timer EXCEPT ![id].st = "fired"]
  /\ IF request[id] = "inflight"
       THEN Settle(id, "failed", IsTimeout("AbortError"))
       ELSE UNCHANGED <<request, pendingCredentials, sending, effectPending>>
  /\ flog' = [NoFLog EXCEPT !.op = "sendTimeout", !.id = id]
  /\ UNCHANGED <<location, exchanges, loading, loadError, fetchedOnce, fetches,
                 revokes, now, ownerMounted, nextTask, dismissed>>
  /\ UNCHANGED <<pvars, tvars, avars, cvars>>

\* controller.abort() has been called for the request of the task: only the
\* callback of its timer calls it
Aborted(id) == timer[id].st = "fired"

\* variant: removing the row aborts the request
TimerAfterDismiss_Abort(t) == [t EXCEPT !.st = "fired"]

\* the timer and the AbortController of a task whose row is removed: the
\* onClick only filters the list
TimerAfterDismiss(t) == t

\* the Dismiss / Remove button of a row of Background Credential Sends
Dismiss(id) ==
  /\ IssuedMounted
  /\ pendingCredentials[id].status # "none"
  /\ pendingCredentials' = [pendingCredentials EXCEPT ![id] = NoItem]
  /\ timer' = [timer EXCEPT ![id] = TimerAfterDismiss(@)]
  /\ dismissed' = dismissed \cup {id}
  /\ effectPending' = TRUE
  /\ flog' = [NoFLog EXCEPT !.op = "dismiss", !.id = id]
  /\ UNCHANGED <<location, exchanges, loading, loadError, fetchedOnce, fetches,
                 revokes, request, now, sending, ownerMounted, nextTask>>
  /\ UNCHANGED <<pvars, tvars, avars, cvars>>

\* variant: the button empties the list
KeptByClear_None(item) == FALSE

\* the filter of the Clear Completed/Failed button:
\*   prev.filter(item => item.status === 'sending')
KeptByClear(item) == item.status = "sending"

\* the Clear Completed/Failed button, disabled while no item is completed
\* or failed
ClearCompletedFailed ==
  LET gone == {id \in TaskIds : pendingCredentials[id].status \in Terminal}
  IN /\ IssuedMounted
     /\ gone # {}
     /\ pendingCredentials' =
          [id \in TaskIds |-> IF KeptByClear(pendingCredentials[id])
                              THEN pendingCredentials[id] ELSE NoItem]
     /\ dismissed' = dismissed \cup gone
     /\ effectPending' = TRUE
     /\ flog' = [NoFLog EXCEPT !.op = "clear"]
     /\ UNCHANGED <<location, exchanges, loading, loadError, fetchedOnce,
                    fetches, revokes, request, timer, now, sending,
                    ownerMounted, nextTask>>
     /\ UNCHANGED <<pvars, tvars, avars, cvars>>

\* the one-second interval of the mounted CredentialsIssuedCard:
\* setElapsedTimes(times), the card renders
ElapsedTimer ==
  /\ IssuedMounted
  /\ effectPending' = TRUE
  /\ flog' = NoFLog
  /\ UNCHANGED <<location, exchanges, loading, loadError, fetchedOnce, fetches,
                 revokes, pendingCredentials, request, timer, now, sending,
                 ownerMounted, nextTask, dismissed>>
  /\ UNCHANGED <<pvars, tvars, avars, cvars>>

\* time passes
Tick ==
  /\ now < MaxNow
  /\ now' = now + TickMs
  /\ flog' = NoFLog
  /\ UNCHANGED <<location, exchanges, loading, loadError, fetchedOnce,
                 effectPending, fetches, revokes, pendingCredentials, request,
                 timer, sending, ownerMounted, nextTask, dismissed>>
  /\ UNCHANGED <<pvars, tvars, avars, cvars>>

FNext ==
  \/ \E r \in FaberRoutes : FaberNavigate(r)
  \/ RouteEffect
  \/ Refresh
  \/ \E fo \in BOOLEAN, list \in ExchangeLists : IssuedLoadOk(fo, list)
  \/ \E fo \in BOOLEAN : IssuedLoadFail(fo)
  \/ ConfirmRevoke
  \/ \E rv \in revokes : RevokeOk(rv)
  \/ \E rv \in revokes : RevokeFail(rv)
  \/ \E form \in Forms : SendCredential(form)
  \/ \E id \in TaskIds : SendResolved(id)
  \/ \E id \in TaskIds, name \in ErrorNames : SendRejected(id, name)
  \/ \E id \in TaskIds : SendTimeout(id)
  \/ \E id \in TaskIds : Dismiss(id)
  \/ ClearCompletedFailed
  \/ ElapsedTimer
  \/ Tick

\* -------------------------------------------------------------------------
\* Alice: useApi, useConnections.load and ConnectionsPage
\* -------------------------------------------------------------------------

NumConnections == 2  \* connections the agent may report
NumPresentations == 1 \* presentation exchanges the agent may report
MaxListFetches == 2  \* list requests of a page outstanding at a time

ConnectionIds == 1..NumConnections
ConnectionLists == SUBSET ConnectionIds
FetchSlots == 1..MaxListFetches

AliceRoutes == {"/dashboard", "/connections", "/proofs"}

\* removeConnection of a connection: not running ("none"), awaiting its
\* DELETE request ("delete"), or awaiting the load() that follows it, which
\* returns when the list request `fetch` is answered ("reload")
NoCall == [phase |-> "none", fetch |-> 0]

\* op: the handler that ran; cause: the render it ran after (effects only);
\* id: the connection it ran for; toast: the intent of the toast it pushed;
\* silent: the list request it answered was in silentFetches
NoALog == [op |-> "none", cause |-> "none", id |-> 0, toast |-> "none",
           silent |-> FALSE]

ConnectionsMounted == aliceLocation = "/connections"
AliceProofsMounted == aliceLocation = "/proofs"

PresentationIds == 1..NumPresentations
\* the records of a list of presentation exchanges that are in the
\* request_received state
PresentationLists == SUBSET PresentationIds

MaxAccepts == 2  \* accept requests outstanding at a time
AcceptSlots == 1..MaxAccepts

\* what acceptInvitation tells apart in the pasted text: blank after trim();
\* json: JSON.parse returns; type: parsed['@type'] is missing or falsy
\* ("none"), a string that includes 'out-of-band/1.1/invitation' ("oob11"),
\* another string ("other"), or a truthy value with no includes method
\* ("number"); id, protocols, services: parsed['@id'],
\* parsed.handshake_protocols, parsed.services are truthy
TypeKinds == {"none", "oob11", "other", "number"}
Payloads ==
  {p \in [blank : BOOLEAN, json : BOOLEAN, type : TypeKinds, id : BOOLEAN,
          protocols : BOOLEAN, services : BOOLEAN] :
     /\ p.blank => ~p.json
     /\ ~p.json => p.type = "none" /\ ~p.id /\ ~p.protocols /\ ~p.services}
Blank == [blank |-> TRUE, json |-> FALSE, type |-> "none", id |-> FALSE,
          protocols |-> FALSE, services |-> FALSE]

\* variant: the services field is not looked at
RequiredFields_NoServices(p) == p.id /\ p.protocols

\* !(!parsed['@id'] || !parsed.handshake_protocols || !parsed.services)
RequiredFields(p) == p.id /\ p.protocols /\ p.services

\* the checks of acceptInvitation before it sends the request, in the order
\* of the code: the title of the error toast, or "ok"
ValidateInvitation(p) ==
  IF p.blank THEN "Please paste invitation content"
  ELSE IF ~p.json THEN "Invalid invitation format: parse"
  ELSE IF p.type \in {"none", "other"} THEN "Invalid invitation format: @type"
  ELSE IF p.type = "number" THEN "Invalid invitation format: parse"
  ELSE IF ~RequiredFields(p) THEN "Invalid invitation format: fields"
  ELSE "ok"

AInit ==
  /\ acceptModalOpen = FALSE
  /\ invitationInput = Blank
  /\ accepting = FALSE
  /\ acceptCalls = [k \in AcceptSlots |-> "free"]
  /\ aliceLocation = "/dashboard"
  /\ rendered = "none"
  /\ pending = FALSE
  /\ lastError = FALSE
  /\ connections = {}
  /\ connectionsLoading = FALSE
  /\ connectionFetches = {}
  /\ removing = {}
  /\ removeCalls = [id \in ConnectionIds |-> NoCall]
  /\ aliceProofs = {}
  /\ proofsLoading = FALSE
  /\ proofFetches = {}
  /\ silentFetches = {}
  /\ sendingPresentation = {}
  /\ presentationCalls = {}
  /\ alog = NoALog

CanFetchList == connectionFetches # FetchSlots
FreeSlot == Min(FetchSlots \ connectionFetches)

\* the removeConnection calls whose `await load()` returns when the list
\* request k is answered
AwaitingReload(k) ==
  {id \in ConnectionIds : removeCalls[id] = [phase |-> "reload", fetch |-> k]}

\* useConnections.load up to its await:
\*   setLoading(true); api.request('/api/connections') with
\*   setPending(true); setLastError(null)
ConnectionsLoad ==
  /\ connectionsLoading' = TRUE
  /\ pending' = TRUE
  /\ lastError' = FALSE
  /\ connectionFetches' = connectionFetches \cup {FreeSlot}

\* some state cell gets a new value when load() starts: the page renders
LoadStartRenders == ~connectionsLoading \/ ~pending \/ lastError

\* a nav link is followed: <Routes> unmounts the page of the old route and
\* mounts the one of the new route with its initial state
AliceNavigate(r) ==
  /\ r # aliceLocation
  /\ aliceLocation' = r
  /\ rendered' = IF r \in {"/connections", "/proofs"} THEN "mount" ELSE "none"
  /\ pending' = FALSE
  /\ lastError' = FALSE
  /\ connections' = {}
  /\ connectionsLoading' = FALSE
  /\ connectionFetches' = {}
  /\ removing' = {}
  /\ removeCalls' = [id \in ConnectionIds |-> NoCall]
  /\ aliceProofs' = {}
  /\ proofsLoading' = FALSE
  /\ proofFetches' = {}
  /\ silentFetches' = {}
  /\ sendingPresentation' = {}
  /\ presentationCalls' = {}
  /\ acceptModalOpen' = FALSE
  /\ invitationInput' = Blank
  /\ accepting' = FALSE
  /\ acceptCalls' = [k \in AcceptSlots |->
                       IF acceptCalls[k] = "free" THEN "free" ELSE "unmounted"]
  /\ alog' = [NoALog EXCEPT !.op = "navigate"]
  /\ UNCHANGED <<pvars, tvars, fvars, cvars>>

\* the [location.pathname, load] effect of ConnectionsPage runs after a
\* render: useApi() returns a new object at every render, so load, whose
\* dependencies are [api, pushToast], is a new function at every render and
\* the effect runs after each of them:
\*   if (location.pathname === '/connections') load()
ConnectionsRouteEffect ==
  /\ ConnectionsMounted
  /\ rendered # "none"
  /\ CanFetchList
  /\ ConnectionsLoad
  /\ rendered' = IF LoadStartRenders THEN "loadStart" ELSE "none"
  /\ alog' = [NoALog EXCEPT !.op = "effect", !.cause = rendered]
  /\ UNCHANGED <<aliceLocation, connections, removing, removeCalls>>
  /\ UNCHANGED <<presVars, acceptVars, pvars, tvars, fvars, cvars>>

\* the Refresh button (disabled={loading}): onClick={load}
ConnectionsRefresh ==
  /\ ConnectionsMounted
  /\ ~connectionsLoading
  /\ CanFetchList
  /\ ConnectionsLoad
  /\ rendered' = "refresh"
  /\ alog' = [NoALog EXCEPT !.op = "refresh"]
  /\ UNCHANGED <<aliceLocation, connections, removing, removeCalls>>
  /\ UNCHANGED <<presVars, acceptVars, pvars, tvars, fvars, cvars>>

\* what the two ways a list request ends have in common: request()'s
\* finally does setPending(false), load()'s finally setLoading(false), and
\* a removeConnection that awaited this load() goes on to its own finally,
\* which deletes removing[connectionId]
ConnectionsLoadDone(k) ==
  /\ k \in connectionFetches
  /\ connectionFetches' = connectionFetches \ {k}
  /\ pending' = FALSE
  /\ connectionsLoading' = FALSE
  /\ removing' = removing \ AwaitingReload(k)
  /\ removeCalls' = [id \in ConnectionIds |->
                       IF id \in AwaitingReload(k) THEN NoCall ELSE removeCalls[id]]

\* the list request k resolves: setConnections(res?.results ?? [])
ConnectionsLoadOk(k, list) ==
  /\ ConnectionsMounted
  /\ ConnectionsLoadDone(k)
  /\ connections' = list
  /\ rendered' = "loadOk"
  /\ alog' = [NoALog EXCEPT !.op = "loadOk"]
  /\ UNCHANGED <<aliceLocation, lastError>>
  /\ UNCHANGED <<presVars, acceptVars, pvars, tvars, fvars, cvars>>

\* it rejects: setLastError(error), pushToast('Failed to load connections')
ConnectionsLoadFail(k) ==
  /\ ConnectionsMounted
  /\ ConnectionsLoadDone(k)
  /\ lastError' = TRUE
  /\ rendered' = "loadFail"
  /\ alog' = [NoALog EXCEPT !.op = "loadFail", !.toast = "error"]
  /\ UNCHANGED <<aliceLocation, connections>>
  /\ UNCHANGED <<presVars, acceptVars, pvars, tvars, fvars, cvars>>

\* the Remove button of a row: removeConnection(connectionId)
\*   if (removing[connectionId]) return
\*   if (!confirm(...)) return
\*   setRemoving(prev => ({...prev, [connectionId]: true}))
\*   await api.request(`/api/connections/${connectionId}`, {method: 'DELETE'})
RemoveConnection(id, confirmed) ==
  /\ ConnectionsMounted
  /\ id \in connections
  /\ IF id \in removing
       THEN /\ alog' = [NoALog EXCEPT !.op = "removeDropped", !.id = id]
            /\ UNCHANGED <<rendered, pending, lastError, removing, removeCalls>>
       ELSE IF ~confirmed
       THEN /\ alog' = [NoALog EXCEPT !.op = "removeCancelled", !.id = id]
            /\ UNCHANGED <<rendered, pending, lastError, removing, removeCalls>>
       ELSE /\ removing' = removing \cup {id}
            /\ removeCalls' = [removeCalls EXCEPT ![id] =
                                 [phase |-> "delete", fetch |-> 0]]
            /\ pending' = TRUE
            /\ lastError' = FALSE
            /\ rendered' = "remove"
            /\ alog' = [NoALog EXCEPT !.op = "remove", !.id = id]
  /\ UNCHANGED <<aliceLocation, connections, connectionsLoading,
                 connectionFetches>>
  /\ UNCHANGED <<presVars, acceptVars, pvars, tvars, fvars, cvars>>

\* the DELETE request resolves: success toast, then `await load()`; the
\* marker stays until that load() has returned
RemoveOk(id) ==
  /\ removeCalls[id].phase = "delete"
  /\ CanFetchList
  /\ ConnectionsLoad
  /\ removeCalls' = [removeCalls EXCEPT ![id] =
                       [phase |-> "reload", fetch |-> FreeSlot]]
  /\ rendered' = "removeOk"
  /\ alog' = [NoALog EXCEPT !.op = "removeOk", !.id = id, !.toast = "success"]
  /\ UNCHANGED <<aliceLocation, connections, removing>>
  /\ UNCHANGED <<presVars, acceptVars, pvars, tvars, fvars, cvars>>

\* the DELETE request rejects: error toast, finally deletes the marker
RemoveFail(id) ==
  /\ removeCalls[id].phase = "delete"
  /\ removeCalls' = [removeCalls EXCEPT ![id] = NoCall]
  /\ removing' = removing \ {id}
  /\ pending' = FALSE
  /\ lastError' = TRUE
  /\ rendered' = "removeFail"
  /\ alog' = [NoALog EXCEPT !.op = "removeFail", !.id = id, !.toast = "error"]
  /\ UNCHANGED <<aliceLocation, connections, connectionsLoading,
                 connectionFetches>>
  /\ UNCHANGED <<presVars, acceptVars, pvars, tvars, fvars, cvars>>

\* ---- Alice ProofsPage
\* load of ProofsPage up to its await:
\*   setLoading(true); api.request('/api/proofs')
AliceProofsLoad(silent) ==
  /\ proofsLoading' = TRUE
  /\ pending' = TRUE
  /\ lastError' = FALSE
  /\ proofFetches' = proofFetches \cup {Min(FetchSlots \ proofFetches)}
  /\ silentFetches' = IF silent
                        THEN silentFetches \cup {Min(FetchSlots \ proofFetches)}
                        ELSE silentFetches

\* the [location.pathname, load] effect of ProofsPage runs after a render
\* (load is a new function at every render, as in ConnectionsPage):
\*   if (location.pathname === '/proofs') load()
AliceProofsRouteEffect ==
  /\ AliceProofsMounted
  /\ rendered # "none"
  /\ proofFetches # FetchSlots
  /\ AliceProofsLoad(FALSE)
  /\ rendered' = IF ~proofsLoading \/ ~pending \/ lastError
                   THEN "loadStart" ELSE "none"
  /\ alog' = [NoALog EXCEPT !.op = "effect", !.cause = rendered]
  /\ UNCHANGED <<aliceLocation, aliceProofs, sendingPresentation,
                 presentationCalls>>
  /\ UNCHANGED <<connVars, acceptVars, pvars, tvars, fvars, cvars>>

\* the Refresh button (disabled={loading}): onClick={load}
AliceProofsRefresh ==
  /\ AliceProofsMounted
  /\ ~proofsLoading
  /\ proofFetches # FetchSlots
  /\ AliceProofsLoad(FALSE)
  /\ rendered' = "refresh"
  /\ alog' = [NoALog EXCEPT !.op = "refresh"]
  /\ UNCHANGED <<aliceLocation, aliceProofs, sendingPresentation,
                 presentationCalls>>
  /\ UNCHANGED <<connVars, acceptVars, pvars, tvars, fvars, cvars>>

\* the list request k resolves: setProofs(res?.results ?? []), finally
AliceProofsLoadOk(k, list) ==
  /\ AliceProofsMounted
  /\ k \in proofFetches
  /\ proofFetches' = proofFetches \ {k}
  /\ silentFetches' = silentFetches \ {k}
  /\ aliceProofs' = list
  /\ proofsLoading' = FALSE
  /\ pending' = FALSE
  /\ rendered' = "loadOk"
  /\ alog' = [NoALog EXCEPT !.op = "loadOk", !.silent = k \in silentFetches]
  /\ UNCHANGED <<aliceLocation, lastError, sendingPresentation,
                 presentationCalls>>
  /\ UNCHANGED <<connVars, acceptVars, pvars, tvars, fvars, cvars>>

\* it rejects: the catch of load pushes 'Failed to load proofs' and the
\* promise of load() resolves, so a .catch chained to it never runs
AliceProofsLoadFail(k) ==
  /\ AliceProofsMounted
  /\ k \in proofFetches
  /\ proofFetches' = proofFetches \ {k}
  /\ silentFetches' = silentFetches \ {k}
  /\ proofsLoading' = FALSE
  /\ pending' = FALSE
  /\ lastError' = TRUE
  /\ rendered' = "loadFail"
  /\ alog' = [NoALog EXCEPT !.op = "loadFail", !.toast = "error",
                            !.silent = k \in silentFetches]
  /\ UNCHANGED <<aliceLocation, aliceProofs, sendingPresentation,
                 presentationCalls>>
  /\ UNCHANGED <<connVars, acceptVars, pvars, tvars, fvars, cvars>>

\* the Respond to Proof button of a row in the request_received state:
\*   if (sendingPresentation[id]) return
\*   setSendingPresentation(prev => ({...prev, [id]: true}))
\*   await api.request(`/api/proofs/${id}/presentation`, {method: 'POST'})
SendPresentation(id) ==
  /\ AliceProofsMounted
  /\ id \in aliceProofs
  /\ IF id \in sendingPresentation
       THEN /\ alog' = [NoALog EXCEPT !.op = "sendPresentationDropped", !.id = id]
            /\ UNCHANGED <<rendered, pending, lastError, sendingPresentation,
                           presentationCalls>>
       ELSE /\ sendingPresentation' = sendingPresentation \cup {id}
            /\ presentationCalls' = presentationCalls \cup {id}
            /\ pending' = TRUE
            /\ lastError' = FALSE
            /\ rendered' = "sendPresentation"
            /\ alog' = [NoALog EXCEPT !.op = "sendPresentation", !.id = id]
  /\ UNCHANGED <<aliceLocation, aliceProofs, proofsLoading, proofFetches,
                 silentFetches>>
  /\ UNCHANGED <<connVars, acceptVars, pvars, tvars, fvars, cvars>>

\* the request resolves: success toast, load().catch(() => {}) without
\* awaiting it, finally deletes the marker
SendPresentationOk(id) ==
  /\ id \in presentationCalls
  /\ presentationCalls' = presentationCalls \ {id}
  /\ sendingPresentation' = sendingPresentation \ {id}
  /\ proofFetches # FetchSlots
  /\ AliceProofsLoad(TRUE)
  /\ rendered' = "sendPresentationOk"
  /\ alog' = [NoALog EXCEPT !.op = "sendPresentationOk", !.id = id,
                            !.toast = "success"]
  /\ UNCHANGED <<aliceLocation, aliceProofs>>
  /\ UNCHANGED <<connVars, acceptVars, pvars, tvars, fvars, cvars>>

\* the request rejects: pushToast('Failed to send presentation'),
\* console.error, finally deletes the marker
SendPresentationFail(id) ==
  /\ id \in presentationCalls
  /\ presentationCalls' = presentationCalls \ {id}
  /\ sendingPresentation' = sendingPresentation \ {id}
  /\ pending' = FALSE
  /\ lastError' = TRUE
  /\ rendered' = "sendPresentationFail"
  /\ alog' = [NoALog EXCEPT !.op = "sendPresentationFail", !.id = id,
                            !.toast = "error"]
  /\ UNCHANGED <<aliceLocation, aliceProofs, proofsLoading, proofFetches,
                 silentFetches>>
  /\ UNCHANGED <<connVars, acceptVars, pvars, tvars, fvars, cvars>>

\* the Accept Invitation button (disabled={accepting}) opens the modal, its
\* Cancel button closes it unless accepting
SetAcceptModalOpen(open) ==
  /\ ConnectionsMounted
  /\ ~accepting
  /\ acceptModalOpen # open
  /\ acceptModalOpen' = open
  /\ rendered' = "modal"
  /\ alog' = [NoALog EXCEPT !.op = "modal"]
  /\ UNCHANGED <<aliceLocation, pending, lastError, invitationInput, accepting,
                 acceptCalls>>
  /\ UNCHANGED <<connVars, presVars, pvars, tvars, fvars, cvars>>

\* the user edits the textarea of the modal: setInvitationInput(e.target.value)
EditInvitation(p) ==
  /\ ConnectionsMounted
  /\ acceptModalOpen
  /\ p # invitationInput
  /\ invitationInput' = p
  /\ rendered' = "edit"
  /\ alog' = [NoALog EXCEPT !.op = "edit"]
  /\ UNCHANGED <<aliceLocation, pending, lastError, acceptModalOpen, accepting,
                 acceptCalls>>
  /\ UNCHANGED <<connVars, presVars, pvars, tvars, fvars, cvars>>

\* the Submit button of the modal (disabled={accepting}): acceptInvitation
\* up to its await. A check that fails pushes an error toast and returns
\* from inside the try block, so the finally runs setAccepting(false);
\* the toast renders App and with it the page
AcceptInvitation ==
  /\ ConnectionsMounted
  /\ acceptModalOpen
  /\ ~accepting
  /\ \E k \in AcceptSlots : acceptCalls[k] = "free"
  /\ IF ValidateInvitation(invitationInput) # "ok"
       THEN /\ rendered' = "acceptRejected"
            /\ alog' = [NoALog EXCEPT !.op = "acceptRejected", !.toast = "error"]
            /\ UNCHANGED <<pending, lastError, accepting, acceptCalls>>
       ELSE /\ accepting' = TRUE
            /\ pending' = TRUE
            /\ lastError' = FALSE
            /\ acceptCalls' = [acceptCalls EXCEPT
                 ![Min({k \in AcceptSlots : acceptCalls[k] = "free"})] = "mounted"]
            /\ rendered' = "accept"
            /\ alog' = [NoALog EXCEPT !.op = "accept"]
  /\ UNCHANGED <<aliceLocation, acceptModalOpen, invitationInput>>
  /\ UNCHANGED <<connVars, presVars, pvars, tvars, fvars, cvars>>

\* a toast pushed by a handler whose page instance is gone: App renders, and
\* so does the page on screen
RenderedByToast ==
  IF ConnectionsMounted \/ AliceProofsMounted THEN "toast" ELSE rendered

\* the accept request k resolves: setAcceptModalOpen(false),
\* setInvitationInput(''), load().catch(() => {}) without awaiting it, a
\* success toast, finally setAccepting(false). The setters of an instance
\* that was unmounted do nothing
AcceptOk(k) ==
  /\ acceptCalls[k] # "free"
  /\ acceptCalls' = [acceptCalls EXCEPT ![k] = "free"]
  /\ IF acceptCalls[k] = "mounted"
       THEN /\ CanFetchList
            /\ ConnectionsLoad
            /\ acceptModalOpen' = FALSE
            /\ invitationInput' = Blank
            /\ accepting' = FALSE
            /\ rendered' = "acceptOk"
            /\ UNCHANGED <<connections, removing, removeCalls>>
       ELSE /\ rendered' = RenderedByToast
            /\ UNCHANGED <<pending, lastError, acceptModalOpen, invitationInput,
                           accepting, connVars>>
  /\ alog' = [NoALog EXCEPT !.op = "acceptOk", !.toast = "success"]
  /\ UNCHANGED aliceLocation
  /\ UNCHANGED <<presVars, pvars, tvars, fvars, cvars>>

\* it rejects: pushToast('Failed to accept invitation'), finally
\* setAccepting(false)
AcceptFail(k) ==
  /\ acceptCalls[k] # "free"
  /\ acceptCalls' = [acceptCalls EXCEPT ![k] = "free"]
  /\ IF acceptCalls[k] = "mounted"
       THEN /\ pending' = FALSE
            /\ lastError' = TRUE
            /\ accepting' = FALSE
            /\ rendered' = "acceptFail"
       ELSE /\ rendered' = RenderedByToast
            /\ UNCHANGED <<pending, lastError, accepting>>
  /\ alog' = [NoALog EXCEPT !.op = "acceptFail", !.toast = "error"]
  /\ UNCHANGED <<aliceLocation, acceptModalOpen, invitationInput>>
  /\ UNCHANGED <<connVars, presVars, pvars, tvars, fvars, cvars>>

\* ConnectionsPage as far as accepting an invitation goes
AcceptNext ==
  \/ \E r \in AliceRoutes : AliceNavigate(r)
  \/ \E open \in BOOLEAN : SetAcceptModalOpen(open)
  \/ \E p \in Payloads : EditInvitation(p)
  \/ AcceptInvitation
  \/ \E k \in AcceptSlots : AcceptOk(k)
  \/ \E k \in AcceptSlots : AcceptFail(k)
  \/ ConnectionsRouteEffect
  \/ \E k \in FetchSlots, list \in ConnectionLists : ConnectionsLoadOk(k, list)
  \/ \E k \in FetchSlots : ConnectionsLoadFail(k)

ANext ==
  \/ \E r \in AliceRoutes : AliceNavigate(r)
  \/ ConnectionsRouteEffect
  \/ ConnectionsRefresh
  \/ \E k \in FetchSlots, list \in ConnectionLists : ConnectionsLoadOk(k, list)
  \/ \E k \in FetchSlots : ConnectionsLoadFail(k)
  \/ \E id \in ConnectionIds, confirmed \in BOOLEAN : RemoveConnection(id, confirmed)
  \/ \E id \in ConnectionIds : RemoveOk(id)
  \/ \E id \in ConnectionIds : RemoveFail(id)
  \/ AliceProofsRouteEffect
  \/ AliceProofsRefresh
  \/ \E k \in FetchSlots, list \in PresentationLists : AliceProofsLoadOk(k, list)
  \/ \E k \in FetchSlots : AliceProofsLoadFail(k)
  \/ \E id \in PresentationIds : SendPresentation(id)
  \/ \E id \in PresentationIds : SendPresentationOk(id)
  \/ \E id \in PresentationIds : SendPresentationFail(id)

\* -------------------------------------------------------------------------
\* Acme: useAgentStatus and the useApi it calls
\* -------------------------------------------------------------------------

MaxStatusChecks == 2  \* status requests outstanding at a time

AgentStatuses == {"loading", "up", "down"}
StatusSlots == 1..MaxStatusChecks

\* op: the handler that ran; cause: the render it ran after (effects only)
NoSLog == [op |-> "none", cause |-> "none"]

\* App has rendered for the first time and its effects have yet to run
SInit ==
  /\ statusRendered = "mount"
  /\ statusPending = FALSE
  /\ statusLastError = FALSE
  /\ agentStatus = "loading"
  /\ statusChecks = [k \in StatusSlots |-> "free"]
  /\ statusInterval = FALSE
  /\ slog = NoSLog

\* checkStatus up to its await: api.request('/api/status') with
\*   setPending(true); setLastError(null)
CheckStatus(origin) ==
  /\ \E k \in StatusSlots : statusChecks[k] = "free"
  /\ statusChecks' = [statusChecks EXCEPT
                        ![Min({k \in StatusSlots : statusChecks[k] = "free"})] = origin]
  /\ statusPending' = TRUE
  /\ statusLastError' = FALSE

\* a state cell of the hook gets a new value when a check starts: App renders
CheckStartRenders == ~statusPending \/ statusLastError

\* the effect of useAgentStatus, whose dependency is [api]: useApi() returns
\* a new object at every render, so the effect runs after each render of
\* App: its cleanup clears the interval, then
\*   checkStatus(); const interval = setInterval(checkStatus, 10000)
StatusEffect ==
  /\ statusRendered # "none"
  /\ CheckStatus(statusRendered)
  /\ statusInterval' = TRUE
  /\ statusRendered' = IF CheckStartRenders THEN "checkStart" ELSE "none"
  /\ slog' = [op |-> "effect", cause |-> statusRendered]
  /\ UNCHANGED agentStatus
  /\ UNCHANGED <<pvars, tvars, fvars, avars, ivars>>

\* the interval fires: checkStatus()
IntervalTick ==
  /\ statusInterval
  /\ CheckStatus("tick")
  /\ statusRendered' = IF CheckStartRenders THEN "checkStart" ELSE statusRendered
  /\ slog' = [NoSLog EXCEPT !.op = "tick"]
  /\ UNCHANGED <<agentStatus, statusInterval>>
  /\ UNCHANGED <<pvars, tvars, fvars, avars, ivars>>

\* a status request resolves: request()'s finally does setPending(false),
\* then setStatus(res?.status || 'down')
StatusOk(k, st) ==
  /\ statusChecks[k] # "free"
  /\ statusChecks' = [statusChecks EXCEPT ![k] = "free"]
  /\ statusPending' = FALSE
  /\ agentStatus' = st
  /\ statusRendered' = IF statusPending \/ agentStatus # st
                        THEN "checkOk" ELSE statusRendered
  /\ slog' = [NoSLog EXCEPT !.op = "checkOk"]
  /\ UNCHANGED <<statusLastError, statusInterval>>
  /\ UNCHANGED <<pvars, tvars, fvars, avars, ivars>>

\* it rejects: setLastError(error) with the error object just caught,
\* setPending(false), then setStatus('down')
StatusFail(k) ==
  /\ statusChecks[k] # "free"
  /\ statusChecks' = [statusChecks EXCEPT ![k] = "free"]
  /\ statusPending' = FALSE
  /\ statusLastError' = TRUE
  /\ agentStatus' = "down"
  /\ statusRendered' = "checkFail"
  /\ slog' = [NoSLog EXCEPT !.op = "checkFail"]
  /\ UNCHANGED statusInterval
  /\ UNCHANGED <<pvars, tvars, fvars, avars, ivars>>

\* a page pushes a toast, or the time of a toast is over: setItems of the
\* useToasts of App, and App renders
ToastRender ==
  /\ statusRendered' = "toast"
  /\ slog' = [NoSLog EXCEPT !.op = "toast"]
  /\ UNCHANGED <<statusPending, statusLastError, agentStatus, statusChecks,
                 statusInterval>>
  /\ UNCHANGED <<pvars, tvars, fvars, avars, ivars>>

SNext ==
  \/ StatusEffect
  \/ IntervalTick
  \/ \E k \in StatusSlots, st \in AgentStatuses \ {"loading"} : StatusOk(k, st)
  \/ \E k \in StatusSlots : StatusFail(k)
  \/ ToastRender

\* -------------------------------------------------------------------------
\* Faber: ConnectionsCard, the initial invitation
\* -------------------------------------------------------------------------

MaxCardMounts == 2  \* times the user opens /connections

CardInsts == 1..MaxCardMounts

\* what the code tells apart in a list of connection records: no record,
\* records in the invitation/invitation-sent/request states only, or a
\* record in the active state among them
ListKinds == {"empty", "invitation", "active"}

\* checkAndCreate of an instance: not running ("idle"), its list request
\* sent ("get"), the response of the agent on its way ("empty",
\* "invitation", "active": what the agent held when it served the request),
\* its create request sent ("post"), the response to that on its way
\* ("created")
CheckPhases == {"idle", "get", "post", "created"} \cup ListKinds

\* op: the handler that ran; inst: the instance it ran for; found: the list
\* the handler looked at
NoILog == [op |-> "none", inst |-> 0, found |-> "none"]

IInit ==
  /\ cardMounts = 0
  /\ cardMounted = 0
  /\ lsCreated = FALSE
  /\ lsInvitation = FALSE
  /\ agentList = "empty"
  /\ hasCreatedInitialInvitation = [n \in CardInsts |-> FALSE]
  /\ checks = [n \in CardInsts |-> "idle"]
  /\ initialInvitation = FALSE
  /\ cardConnections = "empty"
  /\ autoCreates = 0
  /\ ilog = NoILog

\* the [connections, initialInvitation] effect of the instance on screen,
\* run to its fixed point on the values of a render: c.inv is
\* initialInvitation, c.ref the ref of the instance, c.lsC and c.lsI the
\* two localStorage keys
ClearOnActive(conn, c) ==
  IF conn = "active" /\ c.inv
  THEN [inv |-> FALSE, ref |-> FALSE, lsC |-> FALSE, lsI |-> FALSE]
  ELSE IF conn = "invitation" /\ ~c.inv /\ ~c.ref /\ c.lsI
       THEN [c EXCEPT !.inv = TRUE, !.ref = TRUE]
       ELSE c

\* the state after a handler of instance n has set c and, when n is the
\* instance on screen, the render that follows has run the effect; the
\* setState of an instance that is no longer mounted does nothing
CardApply(n, conn, c) ==
  LET d == IF n = cardMounted THEN ClearOnActive(conn, c) ELSE c
  IN /\ initialInvitation' = IF n = cardMounted THEN d.inv ELSE initialInvitation
     /\ hasCreatedInitialInvitation' =
          [hasCreatedInitialInvitation EXCEPT ![n] = d.ref]
     /\ lsCreated' = d.lsC
     /\ lsInvitation' = d.lsI

CardNow(n) ==
  [inv |-> IF n = cardMounted THEN initialInvitation ELSE FALSE,
   ref |-> hasCreatedInitialInvitation[n],
   lsC |-> lsCreated, lsI |-> lsInvitation]

\* the user opens /connections: a new instance whose ref is read from
\* localStorage; its mount effect either shows the saved invitation or
\* starts checkAndCreate with GET /api/connections
CardMount ==
  /\ cardMounted = 0
  /\ cardMounts < MaxCardMounts
  /\ cardMounts' = cardMounts + 1
  /\ cardMounted' = cardMounts + 1
  /\ hasCreatedInitialInvitation' =
       [hasCreatedInitialInvitation EXCEPT ![cardMounts + 1] = lsCreated]
  /\ initialInvitation' = (lsCreated /\ lsInvitation)
  /\ checks' = [checks EXCEPT ![cardMounts + 1] =
                   IF lsCreated THEN "idle" ELSE "get"]
  /\ cardConnections' = "empty"
  /\ ilog' = [NoILog EXCEPT !.op = "mount", !.inst = cardMounts + 1]
  /\ UNCHANGED <<lsCreated, lsInvitation, agentList, autoCreates>>
  /\ UNCHANGED <<pvars, tvars, fvars, avars, svars>>

\* the user follows another nav link: the instance is unmounted; its
\* checkAndCreate, if running, goes on
CardUnmount ==
  /\ cardMounted # 0
  /\ cardMounted' = 0
  /\ initialInvitation' = FALSE
  /\ cardConnections' = "empty"
  /\ ilog' = [NoILog EXCEPT !.op = "unmount", !.inst = cardMounted]
  /\ UNCHANGED <<cardMounts, lsCreated, lsInvitation, agentList,
                 hasCreatedInitialInvitation, checks, autoCreates>>
  /\ UNCHANGED <<pvars, tvars, fvars, avars, svars>>

\* the agent serves the list request of checkAndCreate
AgentServesList(n) ==
  /\ checks[n] = "get"
  /\ checks' = [checks EXCEPT ![n] = agentList]
  /\ ilog' = [NoILog EXCEPT !.op = "serveList", !.inst = n]
  /\ UNCHANGED <<cardMounts, cardMounted, lsCreated, lsInvitation, agentList,
                 hasCreatedInitialInvitation, initialInvitation,
                 cardConnections, autoCreates>>
  /\ UNCHANGED <<pvars, tvars, fvars, avars, svars>>

\* a request of checkAndCreate rejects: catch, console.warn
CheckFails(n) ==
  /\ checks[n] \in {"get", "post"}
  /\ checks' = [checks EXCEPT ![n] = "idle"]
  /\ ilog' = [NoILog EXCEPT !.op = "checkFail", !.inst = n]
  /\ UNCHANGED <<cardMounts, cardMounted, lsCreated, lsInvitation, agentList,
                 hasCreatedInitialInvitation, initialInvitation,
                 cardConnections, autoCreates>>
  /\ UNCHANGED <<pvars, tvars, fvars, avars, svars>>

\* the list response reaches checkAndCreate and shows no record:
\*   api.request('/api/connections/invitation', { method: 'POST' })
AutoCreate(n) ==
  /\ checks[n] = "empty"
  /\ checks' = [checks EXCEPT ![n] = "post"]
  /\ autoCreates' = autoCreates + 1
  /\ ilog' = [op |-> "autoCreate", inst |-> n, found |-> checks[n]]
  /\ UNCHANGED <<cardMounts, cardMounted, lsCreated, lsInvitation, agentList,
                 hasCreatedInitialInvitation, initialInvitation,
                 cardConnections>>
  /\ UNCHANGED <<pvars, tvars, fvars, avars, svars>>

\* the list response shows records: no request; the saved invitation is
\* shown if there is one and the records are invitations only, and the
\* instance is marked as done
CheckSkips(n) ==
  /\ checks[n] \in {"invitation", "active"}
  /\ checks' = [checks EXCEPT ![n] = "idle"]
  /\ CardApply(n, cardConnections,
         IF checks[n] = "invitation" /\ lsInvitation
         THEN [CardNow(n) EXCEPT !.inv = TRUE, !.ref = TRUE]
         ELSE [CardNow(n) EXCEPT !.ref = TRUE, !.lsC = TRUE])
  /\ ilog' = [op |-> "checkSkip", inst |-> n, found |-> checks[n]]
  /\ UNCHANGED <<cardMounts, cardMounted, agentList, cardConnections,
                 autoCreates>>
  /\ UNCHANGED <<pvars, tvars, fvars, avars, svars>>

\* the agent serves the create request: it holds a record in the
\* invitation state from then on
AgentCreatesInvitation(n) ==
  /\ checks[n] = "post"
  /\ checks' = [checks EXCEPT ![n] = "created"]
  /\ agentList' = IF agentList = "empty" THEN "invitation" ELSE agentList
  /\ ilog' = [NoILog EXCEPT !.op = "serveCreate", !.inst = n]
  /\ UNCHANGED <<cardMounts, cardMounted, lsCreated, lsInvitation,
                 hasCreatedInitialInvitation, initialInvitation,
                 cardConnections, autoCreates>>
  /\ UNCHANGED <<pvars, tvars, fvars, avars, svars>>

\* the create response reaches checkAndCreate: setInitialInvitation(pretty),
\* the ref and both localStorage keys are set, a toast is pushed
AutoCreated(n) ==
  /\ checks[n] = "created"
  /\ checks' = [checks EXCEPT ![n] = "idle"]
  /\ CardApply(n, cardConnections,
         [inv |-> TRUE, ref |-> TRUE, lsC |-> TRUE, lsI |-> TRUE])
  /\ ilog' = [NoILog EXCEPT !.op = "autoCreated", !.inst = n]
  /\ UNCHANGED <<cardMounts, cardMounted, agentList, cardConnections,
                 autoCreates>>
  /\ UNCHANGED <<pvars, tvars, fvars, avars, svars>>

\* a list request of load() is answered (the [location.pathname, load]
\* effect issues one after every render): setConnections(res?.results ?? [])
CardLoadOk ==
  /\ cardMounted # 0
  /\ cardConnections' = agentList
  /\ CardApply(cardMounted, agentList, CardNow(cardMounted))
  /\ ilog' = [op |-> "loadOk", inst |-> cardMounted, found |-> agentList]
  /\ UNCHANGED <<cardMounts, cardMounted, agentList, checks, autoCreates>>
  /\ UNCHANGED <<pvars, tvars, fvars, avars, svars>>

\* the other party accepts an invitation: the record becomes active
InvitationAccepted ==
  /\ agentList = "invitation"
  /\ agentList' = "active"
  /\ ilog' = [NoILog EXCEPT !.op = "accepted"]
  /\ UNCHANGED <<cardMounts, cardMounted, lsCreated, lsInvitation,
                 hasCreatedInitialInvitation, checks, initialInvitation,
                 cardConnections, autoCreates>>
  /\ UNCHANGED <<pvars, tvars, fvars, avars, svars>>

\* the user removes the connections the card lists (removeConnection on
\* each row): the agent holds no record
ConnectionsRemoved ==
  /\ cardMounted # 0
  /\ cardConnections # "empty"
  /\ agentList # "empty"
  /\ agentList' = "empty"
  /\ ilog' = [NoILog EXCEPT !.op = "removed"]
  /\ UNCHANGED <<cardMounts, cardMounted, lsCreated, lsInvitation,
                 hasCreatedInitialInvitation, checks, initialInvitation,
                 cardConnections, autoCreates>>
  /\ UNCHANGED <<pvars, tvars, fvars, avars, svars>>

INext ==
  \/ CardMount
  \/ CardUnmount
  \/ \E n \in CardInsts : AgentServesList(n)
  \/ \E n \in CardInsts : CheckFails(n)
  \/ \E n \in CardInsts : AutoCreate(n)
  \/ \E n \in CardInsts : CheckSkips(n)
  \/ \E n \in CardInsts : AgentCreatesInvitation(n)
  \/ \E n \in CardInsts : AutoCreated(n)
  \/ CardLoadOk
  \/ InvitationAccepted
  \/ ConnectionsRemoved

\* -------------------------------------------------------------------------
\* Specifications: one per component, the others at rest
\* -------------------------------------------------------------------------

Init == PInit /\ TInit /\ FInit /\ AInit /\ SInit /\ IInit

SpecProofs == Init /\ [][PNext]_vars
SpecPages == Init /\ [][TNext]_vars
SpecFaber == Init /\ [][FNext]_vars
SpecAlice == Init /\ [][ANext]_vars
SpecAccept == Init /\ [][AcceptNext]_vars
SpecStatus == Init /\ [][SNext]_vars
SpecInvitation == Init /\ [][INext]_vars

\* ------------------------------------------------------ Acme ProofsPage properties
ScanOps == {"loadOk", "autoOk", "autoFail"}

\* C1: an invoke issued while another invoke of the same (kind, identity,
\* transition) is outstanding issues no remote call: whenever the manual
\* verifyPresentation issues its call, that call is the only outstanding
\* verify call of the identity.
C1_SecondInvokeIssuesNoCall ==
  plog.op = "verifyPresentation" => Outstanding(plog.id) = 1

\* C2: once an auto-fired verify-presentation has succeeded for an identity,
\* no later scan of the process auto-fires it again for that identity.
C2_NoAutoFireAfterSuccess ==
  (plog.op \in ScanOps /\ plog.fired # 0) => plog.fired \notin everSucceeded

\* C3 as stated: after an auto-fired verify failed for an identity and until
\* one succeeds, every scan that finds the identity in the
\* presentation-received state auto-invokes it again.
C3_RetriedByEveryScan ==
  \A id \in plog.skipped :
    ~(id \in plog.failed /\ id \notin plog.succeeded)

\* C3 as amended: a failed auto-fire leaves the handled set at once, and a
\* scan passes over a record in the presentation-received state only while
\* an auto-fired call for its identity is in flight or after one has
\* succeeded: the handled set of an instance never holds anything else.
C3_RetryUnlessInFlight ==
  /\ plog.op = "autoFail" => plog.id \notin autoVerifiedRef[plog.inst]
  /\ \A n \in Insts : \A id \in autoVerifiedRef[n] :
        \/ id \in autoSucceeded[n]
        \/ \E s \in scans : s.inst = n /\ s.awaiting = id
  /\ \A id \in plog.skipped : id \in plog.succeeded \cup plog.inflight

\* a refresh applied after a failure auto-invokes the failed identity again
C3_Witness ==
  /\ plog.op = "loadOk"
  /\ plog.fired # 0
  /\ plog.fired \in plog.failed

\* C4: at most one verify call per identity is outstanding at any time,
\* manual and auto-fired calls taken together.
C4_OneVerifyCallPerIdentity ==
  \A id \in Ids : Outstanding(id) <= 1

\* C5: the held list reflects the latest-issued refresh among those whose
\* response has been applied: the late response of an older refresh is
\* discarded.
C5_LastIssuedRefreshWins ==
  Mounted => proofsSeq = newestApplied

\* the loop whose awaited call the step to plog' answered
AnsweredScan ==
  CHOOSE s \in scans : s.inst = plog'.inst /\ s.awaiting = plog'.id

\* the records the loops of instance n have yet to visit after the step
StillToVisit(n) == UNION {t.rest : t \in {u \in scans' : u.inst = n}}

\* C13: the failure of an auto-fired verification is shown as an error toast
\* and does not end the scan: each record of the snapshot in the
\* presentation-received state that the loop had not reached is auto-invoked
\* in the same step, is left for the loop to visit, or is passed over
\* because the handled set holds it.
C13_ScanGoesOnAfterFailure ==
  [][plog'.op = "autoFail" =>
       /\ plog'.op \in ErrorToastOps
       /\ \A id \in AnsweredScan.rest :
            \/ id = plog'.fired
            \/ id \in StillToVisit(plog'.inst)
            \/ id \in plog'.skipped]_vars

\* an auto-fired call failed and the loop auto-invoked the next record
C13_Witness ==
  /\ plog.op = "autoFail"
  /\ plog.fired # 0
  /\ plog.fired # plog.id
\* the records accounted for by the scan the last step started: passed over,
\* auto-invoked, or left for its loop to visit
ScanCovered ==
  plog.skipped
    \cup (IF plog.fired = 0 THEN {} ELSE {plog.fired})
    \cup UNION {s.rest : s \in {t \in scans : t.inst = plog.inst
                                             /\ t.awaiting = plog.fired}}

\* C15: the scan a snapshot triggers runs over the list that snapshot has
\* replaced the previous one with, all of it and nothing else: the records
\* it accounts for are those the held list shows as presentation-received.
C15_ScanSeesWholeSnapshot ==
  plog.op = "loadOk" => ScanCovered = Received(proofs)

\* a snapshot replaced the list an earlier scan of the page ran over, and
\* the scan auto-invoked a record the earlier scan had not
C15_Witness ==
  /\ plog.op = "loadOk"
  /\ plog.failed \cup plog.succeeded # {}
  /\ plog.fired # 0
  /\ plog.fired \notin plog.failed \cup plog.succeeded

\* C28: a scan of the mounted page auto-invokes verify only for a record the
\* snapshot applied last shows as presentation-received; a scan that resumes
\* after its awaited call fires nothing the newer list shows otherwise.
C28_FiresOnlyFromLatestSnapshot ==
  (plog.op \in ScanOps /\ plog.fired # 0 /\ IsCurrent(plog.inst))
    => plog.fired \in Received(proofs)

\* C29: over all scans in progress, however they overlap, at most one
\* auto-fired verify call per identity is outstanding.
C29_OneAutoCallPerIdentity ==
  \A id \in Ids : Cardinality(AutoCalls(id)) <= 1

\* C30: once a manual verify of an identity has succeeded, no scan
\* auto-invokes verify for that identity.
C30_NoAutoFireAfterManualSuccess ==
  (plog.op \in ScanOps /\ plog.fired # 0) => plog.fired \notin manualSucceeded

\* C31: while a verify call of an identity is outstanding, auto-fired or
\* manual, the in-flight marker of the identity is set in the state the
\* mounted page acts on, whichever page instance issued the call.
C31_OutstandingCallIsMarked ==
  Mounted => \A id \in Ids : Outstanding(id) > 0 => id \in verifying

\* ---------------------------------------------------------- record page properties
\* the other spelling of a state tag that has two
SpellingVariant(raw) ==
  CASE raw = "offer_received" -> "offer-received"
    [] raw = "offer-received" -> "offer_received"
    [] raw = "credential_received" -> "credential-received"
    [] raw = "credential-received" -> "credential_received"
    [] raw = "request_received" -> "request-received"
    [] raw = "request-received" -> "request_received"
    [] raw = "presentation_received" -> "presentation-received"
    [] raw = "presentation-received" -> "presentation_received"
    [] OTHER -> raw

\* C6: on every record page, two records whose state tags are the hyphen and
\* underscore spellings of one state are offered the same transitions.
C6_SpellingsSameTransitions ==
  \A i, j \in DOMAIN records :
    records[j] = SpellingVariant(records[i]) => buttons[i] = buttons[j]

\* C16: request-credential and store-credential are invoked by a click only;
\* a snapshot invokes nothing but verify-presentation, and that only for
\* records in the presentation-received state (either spelling).
C16_OnlyVerifyIsAutoFired ==
  /\ \A i \in DOMAIN autoFired :
       /\ autoFired[i] \subseteq {"verifyPresentation"}
       /\ autoFired[i] # {} =>
            records[i] \in {"presentation_received", "presentation-received"}
  /\ invoked.transition \in {"acceptCredentialOffer", "storeCredential"}
       => invoked.by = "user"
  /\ invoked.by = "snapshot" =>
       /\ invoked.transition = "verifyPresentation"
       /\ records[invoked.row] \in {"presentation_received", "presentation-received"}

\* a snapshot showing an offer and a received credential is stored on the
\* credentials page of Alice: both transitions are offered, none is invoked
C16_Witness ==
  /\ page = "alice/credentials"
  /\ invoked = NoInvoke
  /\ \E i, j \in DOMAIN records :
       /\ buttons[i] = {"acceptCredentialOffer"}
       /\ buttons[j] = {"storeCredential"}
       /\ autoFired[i] = {}
       /\ autoFired[j] = {}

\* the state tags that make a transition legal for the kind of record a page
\* lists, in either spelling
KindStates(pg) ==
  CASE pg \in {"acme/credentials", "alice/credentials"} ->
         {"offer_received", "offer-received",
          "credential_received", "credential-received"}
    [] pg = "alice/proofs" -> {"request_received", "request-received"}
    [] pg = "acme/proofs" -> {"presentation_received", "presentation-received"}
    [] OTHER -> {}

C8_TerminalIsFinal ==
  [][\A id \in TaskIds :
       pendingCredentials[id].status \in Terminal
         => pendingCredentials'[id] \in {pendingCredentials[id], NoItem}]_vars

\* a task completed, its item is still listed, and the time its timeout was
\* set for has come
C8_Witness ==
  \E id \in TaskIds :
    /\ pendingCredentials[id].status = "completed"
    /\ timer[id].st = "cleared"
    /\ now >= timer[id].due

\* C9: a listed task is in the timeout status (failed with isTimeout) exactly
\* when its timer has fired, and the timer fires no earlier than
\* SEND_TIMEOUT_MS after the task was started.
C9_TimeoutWhenTimerFires ==
  \A id \in TaskIds :
    LET item == pendingCredentials[id]
    IN /\ (item.status = "failed" /\ item.isTimeout)
            => (timer[id].st = "fired" /\ now >= item.startTime + SEND_TIMEOUT_MS)
       /\ (timer[id].st = "fired" /\ item.status # "none")
            => (item.status = "failed" /\ item.isTimeout)

\* a task that was never completed nor failed has timed out
C9_Witness ==
  \E id \in TaskIds :
    /\ pendingCredentials[id].status = "failed"
    /\ pendingCredentials[id].isTimeout
    /\ flog.op = "sendTimeout"
    /\ flog.id = id

\* every task the user has not removed is listed, as sending while its
\* request is in flight and with a terminal status once it is settled
TasksTracked ==
  \A id \in TaskIds :
    (request[id] # "none" /\ id \notin dismissed) =>
       \/ request[id] = "inflight" /\ pendingCredentials[id].status = "sending"
       \/ request[id] = "settled" /\ pendingCredentials[id].status \in Terminal

\* a change of route leaves the task list, the requests and the timers alone
NavigationKeepsTasks ==
  location' # location =>
    /\ pendingCredentials' = pendingCredentials
    /\ request' = request
    /\ timer' = timer

\* C10: a task stays tracked after the card that started it unmounts:
\* navigation neither removes the task nor touches its request, and the
\* terminal status is recorded whenever the request settles.
C10_TrackedAfterUnmount ==
  []TasksTracked /\ [][NavigationKeepsTasks]_vars

\* the request of a task settles after the card that started it was
\* unmounted, and the terminal status is in the list
C10_Witness ==
  \E id \in TaskIds :
    /\ flog.op \in {"sendResolved", "sendRejected", "sendTimeout"}
    /\ flog.id = id
    /\ ~ownerMounted[id]
    /\ ~DefsMounted
    /\ pendingCredentials[id].status \in Terminal


\* C11: a task ended by the local timeout is listed with the Timeout badge,
\* which no ordinary failure gets: a task ended by a rejection of the remote
\* call is listed as Failed, never as Timeout.
C11_TimeoutDistinctFromFailure ==
  \A id \in TaskIds :
    LET item == pendingCredentials[id]
        listed == flog.id = id /\ item.status # "none"
    IN /\ (flog.op = "sendTimeout" /\ listed)
            => (item.status = "failed" /\ FailedBadge(item) = "Timeout")
       /\ (flog.op = "sendRejected" /\ listed)
            => (item.status = "failed" /\ FailedBadge(item) = "Failed")

\* the remote call is rejected at a time when the timeout is due as well
C11_Witness ==
  \E id \in TaskIds :
    /\ flog.op = "sendRejected"
    /\ flog.id = id
    /\ pendingCredentials[id].status = "failed"
    /\ now >= timer[id].due


\* ------------------------------------------------------------- Alice properties
\* C12: when the remote call of an invoke has completed its in-flight marker
\* is removed: a marker is set only while the remote call of its triple is
\* outstanding.
C12_MarkerOnlyWhileCallOutstanding ==
  /\ alog.op \in {"removeOk", "removeFail"} => alog.id \notin removing
  /\ \A id \in removing : removeCalls[id].phase = "delete"


\* C14: the failure of a transition triggers neither a new invocation nor a
\* new refresh: the failure of send-presentation issues no call, and the
\* effects of the render that follows it issue no list request.
C14_FailureTriggersNoRefresh ==
  /\ alog.op = "sendPresentationFail" => alog.id \notin presentationCalls
  /\ alog.op = "effect" => alog.cause # "sendPresentationFail"


\* C18: a task leaves the list only when the user removes it: by Dismiss or
\* Remove on its row, or by Clear Completed/Failed when its status is
\* terminal.  Settling, a refresh of the exchange list and navigation never
\* remove it, and Clear Completed/Failed leaves a running task in the list.
C18_TaskStaysUntilRemoved ==
  [][\A id \in TaskIds :
       (pendingCredentials[id].status # "none"
          /\ pendingCredentials'[id].status = "none")
       => \/ flog'.op = "dismiss" /\ flog'.id = id
          \/ flog'.op = "clear" /\ pendingCredentials[id].status \in Terminal]_vars

\* Clear Completed/Failed was clicked while one task was running: the
\* finished task is gone, the running one is still listed
C18_Witness ==
  /\ flog.op = "clear"
  /\ dismissed # {}
  /\ \E id \in TaskIds : pendingCredentials[id].status = "sending"


\* C19: the request of a task is aborted only by its own timer, firing no
\* earlier than it was set for and while the request is still in flight;
\* removing the row of a running task, navigating, and the completion or
\* failure of the call abort nothing.
C19_AbortOnlyByTimeout ==
  [][\A id \in TaskIds :
       (~Aborted(id) /\ Aborted(id)')
       => /\ flog'.op = "sendTimeout"
          /\ flog'.id = id
          /\ request[id] = "inflight"
          /\ now >= timer[id].due]_vars

\* the row of a running task was removed, its request went on, and later
\* its timer fired and aborted it
C19_Witness ==
  /\ flog.op = "sendTimeout"
  /\ flog.id \in dismissed
  /\ Aborted(flog.id)
  /\ request[flog.id] = "settled"


\* C20: a page fetches its list at mount, on Refresh and after a successful
\* action only: the effects of the render that follows the completion of a
\* list fetch issue no further fetch of the list.
C20_FetchCompletionStartsNoFetch ==
  alog.op = "effect" => alog.cause \notin {"loadOk", "loadFail"}


\* C24: the list refresh a handler starts right after its action succeeded
\* is a silent update: when that list request fails no error toast is
\* pushed.
C24_RefreshAfterSuccessIsSilent ==
  alog.op = "loadFail" /\ alog.silent => alog.toast # "error"

\* C25: at most one accept-invitation request of a controller is outstanding
\* at any time; an accept asked for while another is outstanding sends no
\* request.
C25_OneAcceptInFlight ==
  Cardinality({k \in AcceptSlots : acceptCalls[k] # "free"}) <= 1

\* the pasted text is non-empty, parses as JSON, has an @type containing
\* 'out-of-band/1.1/invitation' and has @id, handshake_protocols and services
WellFormedInvitation(p) ==
  /\ ~p.blank
  /\ p.json
  /\ p.type = "oob11"
  /\ p.id /\ p.protocols /\ p.services

\* C26: Alice's acceptInvitation sends the accept request only for a
\* well-formed invitation; for any other pasted text it pushes an error
\* toast, sends no request, and leaves the modal open and the input as it is.
C26_AcceptSendsOnlyValidInvitation ==
  [][/\ alog'.op = "accept" => WellFormedInvitation(invitationInput)
     /\ alog'.op \in {"accept", "acceptRejected"}
          /\ ~WellFormedInvitation(invitationInput)
        => /\ alog'.op = "acceptRejected"
           /\ alog'.toast = "error"
           /\ acceptCalls' = acceptCalls
           /\ acceptModalOpen'
           /\ invitationInput' = invitationInput]_vars

C26_Witness ==
  /\ alog.op = "acceptRejected"
  /\ acceptModalOpen
  /\ invitationInput.type = "oob11"
  /\ invitationInput.id /\ invitationInput.protocols
  /\ ~invitationInput.services
  /\ \A k \in AcceptSlots : acceptCalls[k] = "free"

\* ------------------------------------------------------ Acme status hook properties

\* C21: the status hook issues a check at mount and one per interval tick:
\* the render that follows the completion of a status check does not run
\* the effect again, so it starts no check and sets no new interval.
C21_CheckCompletionStartsNoCheck ==
  /\ \A k \in StatusSlots : statusChecks[k] \notin {"checkOk", "checkFail"}
  /\ slog.op = "effect" => slog.cause \notin {"checkOk", "checkFail"}


\* C23: in the Credentials Issued view at most one request for the list of
\* credential exchanges is outstanding at any time, whichever of the route
\* effect, the Refresh button and the refresh after a revoke asked for it.
C23_OneListFetchInFlight ==
  fetches[TRUE] + fetches[FALSE] <= 1

\* C27: sendCredential adds no task and dispatches no request while a send is
\* in progress or when the connection, the credential definition, the schema
\* metadata or the attribute list is missing, and leaves the task list as it
\* is in those cases.
C27_NoTaskWhileSendInProgress ==
  [][/\ flog'.op = "send" => \A id \in TaskIds : request[id] # "inflight"
     /\ flog'.op \in {"sendDropped", "sendInvalid"}
        => UNCHANGED <<pendingCredentials, request>>]_vars

\* ------------------------------------------------------ Faber ConnectionsCard properties

\* C22: the automatic initial invitation is requested at most once, whatever
\* the remounts, route switches and effect runs, and only after a list
\* request of checkAndCreate has shown no connection record.
C22_AutoInvitationAtMostOnce ==
  /\ autoCreates <= 1
  /\ ilog.op = "autoCreate" => ilog.found = "empty"

====
